---- MODULE Spec2Model ----
(***************************************************************************)
(* polyglot-pdf: the selection controller of TranslatedCanvasPage, the     *)
(* selection state that App binds to it, and the page construction of a    *)
(* translation pass.                                                       *)
(*                                                                         *)
(* Coordinates are normalized ratios in the source (0..1).  They are kept  *)
(* here as integers in hundredths (0.15 is 15), so the dead-zone 0.01 is 1 *)
(* and the pick radius 0.05 is 5.  Segment indices are 0-based as in the   *)
(* source; segs[i + 1] is the segment with index i.                        *)
(***************************************************************************)
EXTENDS Integers, Sequences, FiniteSets, TLC

VARIABLES
    activeProjectId,      \* state.activeProjectId
    batches,              \* state.batches ('r' batch): page number -> page
    isEditMode,           \* App: isEditMode
    selectionMode,        \* App: selectionMode
    viewMode,             \* App: viewMode
    visiblePagesCount,    \* App: visiblePagesCount
    singlePageViewIndex,  \* App: singlePageViewIndex
    activeEditPageNumber, \* App: activeEditPageNumber (NoPage for null)
    selectedIndices,      \* App: selectedIndices (a list, 0-based indices)
    dragStart,            \* TranslatedCanvasPage: dragStart, per mounted page
    dragCurrent,          \* TranslatedCanvasPage: dragCurrent, per page
    pointAnchor,          \* TranslatedCanvasPage: pointAnchor, per page
    useAI,                \* state.useAI
    hasStoredKey,         \* App: hasStoredKey
    showApiKeyModal,      \* App: showApiKeyModal
    rangeInput,           \* App: rangeInput (start, end as numbers)
    isProcessing,         \* state.isProcessing
    progress,             \* App: progress
    alertMsg,             \* the message of the last alert(), "" for none
    store,                \* the 'pages' object store: project id -> page number -> record
    pass,                 \* startTranslation: position and locals of the pass
    hit,                  \* a hit test applied to sampled inputs
    dbProjects,           \* the 'projects' object store (ids of the records)
    dbFiles,              \* the 'files' object store (ids of the blobs)
    projects,             \* state.projects (ids, as last read by refreshProjects)
    pdfInstance,          \* App: pdfInstance (the project whose PDF it is, "" for null)
    confirmDialog,        \* App: confirmDialog and the closure of its onConfirm
    loadOp,               \* loadProject between its reads and its setState
    deleted,              \* the projects whose deleteProject has completed
    batchEditingData,     \* App: batchEditingData (the editor's working copy)
    saveOp,               \* the editor's save between db.savePage and its completion
    selectedPages,        \* state.selectedPages (a set of page numbers)
    isExporting,          \* App: isExporting
    exported,             \* exportSelected: the pages being drawn, the documents saved
    context2d,            \* whether canvas.getContext('2d') gives a context
    redraw,               \* TranslatedCanvasPage: the redraw effect of one canvas
    draw,                 \* a drawing applied to sampled inputs
    last                  \* observation of the handler that ran last

passVars == <<useAI, hasStoredKey, showApiKeyModal, rangeInput, isProcessing,
              progress, alertMsg, store, pass>>
libVars  == <<dbProjects, dbFiles, projects, pdfInstance, confirmDialog, loadOp,
              deleted>>
editVars == <<batchEditingData, saveOp>>
exportVars == <<selectedPages, isExporting, exported>>
drawVars == <<context2d, redraw, draw>>
appVars  == <<activeProjectId, batches, passVars, hit, drawVars, libVars, editVars,
              exportVars>>
uiVars   == <<isEditMode, selectionMode, viewMode, visiblePagesCount,
              singlePageViewIndex, activeEditPageNumber, selectedIndices>>
compVars == <<dragStart, dragCurrent, pointAnchor>>
obsVars  == <<last>>

----------------------------------------------------------------------------
(* Bounds and sample inputs *)

\* state.numPages of the loaded project
NumPages == 2

\* the longest list a translation backend answers with
MaxTexts == 3

\* the number of translation passes started in one behaviour
MaxPasses == 1

\* saves of the batch editor in one behaviour
MaxSaves == 1

PageNumbers == 1..NumPages

\* ids of the projects of the library
ProjectIds == {"proj1", "proj2"}

\* activeEditPageNumber = null
NoPage == 0

\* best = -1: no segment picked
NoBest == 0 - 1

Pt(px, py) == [x |-> px, y |-> py]

\* a null dragStart / dragCurrent / pointAnchor
Null == Pt(0 - 1, 0 - 1)

\* pointer positions the handlers are driven with (hundredths)
Pts == { Pt(15, 20), Pt(50, 50), Pt(50, 45) }

\* positions at which the button is pressed
DownPts == { Pt(50, 50) }

\* positions reported while the pointer moves
MovePts == { Pt(60, 60) }

Seg(x, y, w, h) ==
    [text |-> <<"t">>, originalText |-> <<"o">>,
     xRatio |-> x, yRatio |-> y, widthRatio |-> w, heightRatio |-> h]

SegA == Seg(20, 30, 10, 5)
SegB == Seg(45, 55, 10, 10)
SegC == Seg(48, 52, 6, 4)

\* the segments of the translated page n of the loaded project
PageSegs(n) == IF n % 2 = 1 THEN <<SegA, SegB, SegC>> ELSE <<SegC, SegB>>

----------------------------------------------------------------------------
(* Helpers *)

Range(s) == { s[i] : i \in 1..Len(s) }

Abs(n) == IF n < 0 THEN 0 - n ELSE n

Min(a, b) == IF a < b THEN a ELSE b

Max(a, b) == IF a > b THEN a ELSE b

RECURSIVE Filter(_, _)
\* s.filter(i => i # v)
Filter(s, v) ==
    IF s = <<>> THEN <<>>
    ELSE IF Head(s) = v THEN Filter(Tail(s), v)
         ELSE <<Head(s)>> \o Filter(Tail(s), v)

RECURSIVE Dedup(_, _)
\* Array.from(new Set(s)): first occurrences, in insertion order
Dedup(s, seen) ==
    IF s = <<>> THEN <<>>
    ELSE IF Head(s) \in seen THEN Dedup(Tail(s), seen)
         ELSE <<Head(s)>> \o Dedup(Tail(s), seen \cup {Head(s)})

----------------------------------------------------------------------------
(* Program constants *)

\* let minD = 0.05 (hundredths)
PickRadius == 5

\* Math.abs(end.x - dragStart.x) > 0.01 (hundredths)
DeadZone == 1

\* useState(3) for visiblePagesCount, and setVisiblePagesCount(3)
FeedInitialCount == 3

----------------------------------------------------------------------------
(* Pages held in memory *)

TranslatedPage(n, segs) == [pageNumber |-> n, imageData |-> "img", segments |-> segs]

\* no entry for a page number in allPagesMap
AbsentPage == [pageNumber |-> NoPage, imageData |-> "", segments |-> <<>>]

\* no backend has answered yet
NoOutcome == [kind |-> "none", list |-> <<>>]

\* startTranslation is not running
IdlePass == [pc |-> "idle", n |-> 0, start |-> 0, end |-> 0, useAI |-> FALSE,
             projectId |-> "",
             outcome |-> NoOutcome, translatedTexts |-> <<>>,
             entry |-> AbsentPage, runs |-> 0,
             requested |-> <<>>, saved |-> <<>>]

\* no hit test has been applied
NoHit == [seg |-> Seg(0, 0, 0, 0), a |-> Null, b |-> Null, done |-> FALSE,
          points |-> <<>>, area |-> <<>>]

\* no page record of a project
NoPages == [n \in PageNumbers |-> AbsentPage]

\* confirmDialog closed
NoDialog == [isOpen |-> FALSE, kind |-> "none", id |-> "", pages |-> {},
             running |-> FALSE]

\* loadProject is not running
NoLoad == [pc |-> "idle", id |-> "", pgs |-> NoPages, buf |-> FALSE]

\* project proj1 is open; both projects are stored with their files
LibIdle ==
    /\ dbProjects = ProjectIds
    /\ dbFiles = ProjectIds
    /\ projects = ProjectIds
    /\ pdfInstance = "proj1"
    /\ confirmDialog = NoDialog
    /\ loadOp = NoLoad
    /\ deleted = {}

\* allPagesMap.has(n)
HasPage(n) == batches[n].pageNumber # NoPage

\* batchEditingData is null; sel and active record the selection the editor
\* was opened with
NoEditor == [open |-> FALSE, items |-> <<>>, sel |-> <<>>, active |-> NoPage]

\* no save of the editor is awaiting db.savePage; base and items record the
\* page and the working copy the save handler read
NoSave == [pc |-> "idle", projectId |-> "", base |-> AbsentPage, items |-> <<>>,
           page |-> AbsentPage, runs |-> 0]

\* {batchEditingData && activeEditPageNumber !== null && ( ... )}: the editor's
\* overlay covers the window
ModalVisible == batchEditingData.open /\ activeEditPageNumber # NoPage

\* exportSelected is not running and no document was saved; images holds
\* the imageData of the pages the running export took from allPagesMap
NoExport == [pending |-> <<>>, images |-> <<>>, docs |-> {}]

\* the editor is closed and nothing is being exported; the pages of the open
\* project are selected, as loadProject leaves them
EditIdle ==
    /\ batchEditingData = NoEditor
    /\ saveOp = NoSave
    /\ selectedPages = { n \in PageNumbers : HasPage(n) }
    /\ isExporting = FALSE
    /\ exported = NoExport

\* no canvas is observed: nothing was painted, no image is loading
NoRedraw == [page |-> NoPage, deps |-> <<>>, pending |-> <<>>, painted |-> <<>>]

\* no drawing has been applied: no sampled input, no frame
NoDraw == [input |-> <<>>, overlay |-> <<>>, export |-> <<>>]

\* a drawing context is available; no canvas is observed
DrawIdle ==
    /\ context2d = TRUE
    /\ redraw = NoRedraw
    /\ draw = NoDraw

RECURSIVE PageNumbersFrom(_)
\* the page numbers >= n that have a page, in ascending order
PageNumbersFrom(n) ==
    IF n > NumPages THEN <<>>
    ELSE (IF HasPage(n) THEN <<n>> ELSE <<>>) \o PageNumbersFrom(n + 1)

\* Array.from(allPagesMap.keys()).sort((a, b) => a - b)
translatedPageNumbers == PageNumbersFrom(1)

\* the page numbers the page list renders
visiblePageNumbers ==
    IF viewMode = "feed"
    THEN SubSeq(translatedPageNumbers, 1,
                Min(visiblePagesCount, Len(translatedPageNumbers)))
    ELSE IF viewMode = "single"
         THEN IF singlePageViewIndex + 1 <= Len(translatedPageNumbers)
              THEN <<translatedPageNumbers[singlePageViewIndex + 1]>>
              ELSE <<>>
         ELSE translatedPageNumbers

\* the pages that have a TranslatedCanvasPage mounted (key = page number);
\* the grid view renders tiles without a canvas
MountedCanvases ==
    IF activeProjectId = "" \/ viewMode = "grid" THEN {} ELSE Range(visiblePageNumbers)

\* a component that leaves the rendered list is unmounted: when it is
\* rendered again its useState values are the initial null
KeepMounted(f, mounted) == [p \in PageNumbers |-> IF p \in mounted THEN f[p] ELSE Null]

----------------------------------------------------------------------------
(* TranslatedCanvasPage: selection geometry *)

\* variant: every canvas is given the selection, whatever page it belongs to
PropSelectedIndices_Always(p) == selectedIndices

\* selectedIndices={isEditingThisPage ? selectedIndices : []}
PropSelectedIndices(p) == IF activeEditPageNumber = p THEN selectedIndices ELSE <<>>

\* variant: one anchor shared by the canvases of all pages
AnchorOf_Shared(p) ==
    IF pointAnchor[p] # Null THEN pointAnchor[p]
    ELSE IF \E q \in PageNumbers : pointAnchor[q] # Null
         THEN pointAnchor[CHOOSE q \in PageNumbers : pointAnchor[q] # Null]
         ELSE Null

\* pointAnchor of the component rendered for page p
AnchorOf(p) == pointAnchor[p]

\* variant: the corners are used as given, without Math.min / Math.max
IntersectsPoints_NoMinMax(s, anchor, end) ==
    /\ s.xRatio < end.x
    /\ s.xRatio + s.widthRatio > anchor.x
    /\ s.yRatio - s.heightRatio < end.y
    /\ s.yRatio > anchor.y

\* points branch: the test inside reduce
IntersectsPoints(s, anchor, end) ==
    LET x1 == Min(anchor.x, end.x)
        x2 == Max(anchor.x, end.x)
        y1 == Min(anchor.y, end.y)
        y2 == Max(anchor.y, end.y)
        sx1 == s.xRatio
        sx2 == s.xRatio + s.widthRatio
        sy1 == s.yRatio - s.heightRatio
        sy2 == s.yRatio
    IN  sx1 < x2 /\ sx2 > x1 /\ sy1 < y2 /\ sy2 > y1

\* area branch: the test inside reduce
IntersectsArea(s, start, end) ==
    LET x1 == Min(start.x, end.x)
        x2 == Max(start.x, end.x)
        y1 == Min(start.y, end.y)
        y2 == Max(start.y, end.y)
        sx1 == s.xRatio
        sx2 == s.xRatio + s.widthRatio
        sy1 == s.yRatio - s.heightRatio
        sy2 == s.yRatio
    IN  sx1 < x2 /\ sx2 > x1 /\ sy1 < y2 /\ sy2 > y1

RECURSIVE PointsReduce(_, _, _, _)
\* page.segments.reduce((acc, s, i) => ..., []) from index i on
PointsReduce(segs, i, anchor, end) ==
    IF i >= Len(segs) THEN <<>>
    ELSE (IF IntersectsPoints(segs[i + 1], anchor, end) THEN <<i>> ELSE <<>>)
         \o PointsReduce(segs, i + 1, anchor, end)

RECURSIVE AreaReduce(_, _, _, _)
AreaReduce(segs, i, start, end) ==
    IF i >= Len(segs) THEN <<>>
    ELSE (IF IntersectsArea(segs[i + 1], start, end) THEN <<i>> ELSE <<>>)
         \o AreaReduce(segs, i + 1, start, end)

\* variant: the lists are concatenated without new Set
UnionIndices_Concat(sel, newIndices) == sel \o newIndices

\* Array.from(new Set([...selectedIndices, ...newIndices]))
UnionIndices(sel, newIndices) == Dedup(sel \o newIndices, {})

\* the square of d, in units of 1/200 (the centre has half-unit coordinates)
Dist2(s, end) ==
    LET dx == 2 * end.x - (2 * s.xRatio + s.widthRatio)
        dy == 2 * end.y - (2 * s.yRatio - s.heightRatio)
    IN  dx * dx + dy * dy

\* variant: d <= minD
Closer_OrEqual(d2, minD2) == d2 <= minD2

\* if (d < minD)
Closer(d2, minD2) == d2 < minD2

RECURSIVE NearestScan(_, _, _, _, _)
\* page.segments.forEach((s, i) => { if (d < minD) { best = i; minD = d } })
NearestScan(segs, i, end, best, minD2) ==
    IF i >= Len(segs) THEN best
    ELSE LET d2 == Dist2(segs[i + 1], end)
         IN  IF Closer(d2, minD2)
             THEN NearestScan(segs, i + 1, end, i, d2)
             ELSE NearestScan(segs, i + 1, end, best, minD2)

\* let best = -1; let minD = 0.05; ... forEach
NearestBest(segs, end) ==
    NearestScan(segs, 0, end, NoBest, (2 * PickRadius) * (2 * PickRadius))

\* variant: the index is always removed
ToggleIndex_AlwaysRemove(sel, best) == Filter(sel, best)

\* selectedIndices.includes(best) ? filter(i => i !== best) : [...selectedIndices, best]
ToggleIndex(sel, best) ==
    IF best \in Range(sel) THEN Filter(sel, best) ELSE Append(sel, best)

\* dragStart && selectionMode === 'area' && Math.abs(end.x - dragStart.x) > 0.01
UseBox(start, end) ==
    /\ start # Null
    /\ selectionMode = "area"
    /\ Abs(end.x - start.x) > DeadZone

----------------------------------------------------------------------------
(* Observation of the handler that ran last *)

\* kind: "pick", "box", "points" when that branch of handleMouseUp called
\* onSelectionChange, "anchor" when handleMouseUp stored a point anchor,
\* "none" otherwise; page: the page of the canvas (anchor and callbacks).
\* For a pick: best is the picked index, prevSel and prevActive are
\* selectedIndices (as a set) and activeEditPageNumber before it; second
\* tells that the handler that ran just before was a pick of the same
\* segment on the same page, and origSel, origActive are the selection and
\* the active page before that earlier pick.
Obs(kind, page, best, prevSel, prevActive, second, origSel, origActive) ==
    [kind |-> kind, page |-> page, best |-> best,
     prevSel |-> prevSel, prevActive |-> prevActive,
     second |-> second, origSel |-> origSel, origActive |-> origActive]

NoCallback == Obs("none", NoPage, NoBest, {}, NoPage, FALSE, {}, NoPage)

AnchorObs(p) == Obs("anchor", p, NoBest, {}, NoPage, FALSE, {}, NoPage)

UnionObs(kind, p) == Obs(kind, p, NoBest, {}, NoPage, FALSE, {}, NoPage)

PickObs(p, best) ==
    LET again == last.kind = "pick" /\ last.page = p /\ last.best = best
    IN  Obs("pick", p, best, Range(selectedIndices), activeEditPageNumber, again,
            IF again THEN last.prevSel ELSE {},
            IF again THEN last.prevActive ELSE NoPage)

\* a handler of App ran (no canvas involved)
AppObs == NoCallback

\* onSelectionChange={(indices, pNum) => { setActiveEditPageNumber(pNum); setSelectedIndices(indices); }}
onSelectionChange(indices, pNum) ==
    /\ activeEditPageNumber' = pNum
    /\ selectedIndices' = indices

\* setSelectedIndices([]); setActiveEditPageNumber(null)
ClearSelectionState ==
    /\ selectedIndices' = <<>>
    /\ activeEditPageNumber' = NoPage

----------------------------------------------------------------------------
(* TranslatedCanvasPage: pointer handlers *)

handleMouseDown(p, pt) ==
    /\ p \in MountedCanvases
    /\ IF ~isEditMode \/ selectionMode = "points"
       THEN /\ UNCHANGED dragStart
            /\ last' = NoCallback
       ELSE /\ dragStart' = [dragStart EXCEPT ![p] = pt]
            /\ last' = NoCallback
    /\ UNCHANGED <<dragCurrent, pointAnchor>>
    /\ UNCHANGED <<appVars, uiVars>>

handleMouseMove(p, pt) ==
    /\ p \in MountedCanvases
    /\ IF dragStart[p] # Null
       THEN /\ dragCurrent' = [dragCurrent EXCEPT ![p] = pt]
            /\ last' = NoCallback
       ELSE /\ UNCHANGED dragCurrent
            /\ last' = NoCallback
    /\ UNCHANGED <<dragStart, pointAnchor>>
    /\ UNCHANGED <<appVars, uiVars>>

\* variant: the second pointer-up does not reset the anchor
PointsUp_KeepAnchor(p, end) ==
    LET segs == batches[p].segments
        prop == PropSelectedIndices(p)
    IN  IF AnchorOf(p) = Null
        THEN /\ pointAnchor' = [pointAnchor EXCEPT ![p] = end]
             /\ last' = AnchorObs(p)
             /\ UNCHANGED <<dragStart, dragCurrent>>
             /\ UNCHANGED <<appVars, uiVars>>
        ELSE LET newIndices == PointsReduce(segs, 0, AnchorOf(p), end)
             IN  /\ onSelectionChange(UnionIndices(prop, newIndices), p)
                 /\ last' = UnionObs("points", p)
                 /\ UNCHANGED <<dragStart, dragCurrent, pointAnchor>>
                 /\ UNCHANGED <<appVars, isEditMode, selectionMode, viewMode,
                                visiblePagesCount, singlePageViewIndex>>

\* the points branch of handleMouseUp
PointsUp(p, end) ==
    LET segs == batches[p].segments
        prop == PropSelectedIndices(p)
    IN  IF AnchorOf(p) = Null
        THEN /\ pointAnchor' = [pointAnchor EXCEPT ![p] = end]
             /\ last' = AnchorObs(p)
             /\ UNCHANGED <<dragStart, dragCurrent>>
             /\ UNCHANGED <<appVars, uiVars>>
        ELSE LET newIndices == PointsReduce(segs, 0, AnchorOf(p), end)
             IN  /\ onSelectionChange(UnionIndices(prop, newIndices), p)
                 /\ pointAnchor' = [pointAnchor EXCEPT ![p] = Null]
                 /\ last' = UnionObs("points", p)
                 /\ UNCHANGED <<dragStart, dragCurrent>>
                 /\ UNCHANGED <<appVars, isEditMode, selectionMode, viewMode,
                                visiblePagesCount, singlePageViewIndex>>

\* the area branch and the nearest-point branch of handleMouseUp
DragOrPickUp(p, end) ==
    LET segs == batches[p].segments
        prop == PropSelectedIndices(p)
    IN  /\ IF UseBox(dragStart[p], end)
           THEN LET newIndices == AreaReduce(segs, 0, dragStart[p], end)
                IN  /\ onSelectionChange(UnionIndices(prop, newIndices), p)
                    /\ last' = UnionObs("box", p)
           ELSE LET best == NearestBest(segs, end)
                IN  IF best # NoBest
                    THEN /\ onSelectionChange(ToggleIndex(prop, best), p)
                         /\ last' = PickObs(p, best)
                    ELSE /\ UNCHANGED <<activeEditPageNumber, selectedIndices>>
                         /\ last' = NoCallback
        /\ dragStart' = [dragStart EXCEPT ![p] = Null]
        /\ dragCurrent' = [dragCurrent EXCEPT ![p] = Null]
        /\ UNCHANGED pointAnchor
        /\ UNCHANGED <<appVars, isEditMode, selectionMode, viewMode,
                       visiblePagesCount, singlePageViewIndex>>

handleMouseUp(p, end) ==
    /\ p \in MountedCanvases
    /\ IF ~isEditMode
       THEN /\ last' = NoCallback
            /\ UNCHANGED compVars
            /\ UNCHANGED <<appVars, uiVars>>
       ELSE IF selectionMode = "points"
            THEN PointsUp(p, end)
            ELSE DragOrPickUp(p, end)

----------------------------------------------------------------------------
(* App: edit dock, edit mode and view controls *)

\* the edit dock is rendered: isEditMode && state.activeProjectId
DockVisible == isEditMode /\ activeProjectId # ""

\* re-render: components of pages that are no longer listed are unmounted
Rerender ==
    /\ dragStart' = KeepMounted(dragStart, MountedCanvases')
    /\ dragCurrent' = KeepMounted(dragCurrent, MountedCanvases')
    /\ pointAnchor' = KeepMounted(pointAnchor, MountedCanvases')

setSelectionMode(m) ==
    /\ DockVisible
    /\ selectionMode' = m
    /\ last' = AppObs
    /\ UNCHANGED <<isEditMode, viewMode, visiblePagesCount, singlePageViewIndex,
                   activeEditPageNumber, selectedIndices>>
    /\ UNCHANGED <<appVars, compVars>>

\* the "Limpar" button of the dock
ClearButton ==
    /\ DockVisible
    /\ ClearSelectionState
    /\ last' = AppObs
    /\ UNCHANGED <<isEditMode, selectionMode, viewMode, visiblePagesCount,
                   singlePageViewIndex>>
    /\ UNCHANGED <<appVars, compVars>>

\* variant: the dock closes and the selection stays
CloseDockButton_KeepsSelection ==
    /\ DockVisible
    /\ isEditMode' = FALSE
    /\ last' = AppObs
    /\ UNCHANGED <<selectionMode, viewMode, visiblePagesCount, singlePageViewIndex,
                   activeEditPageNumber, selectedIndices>>
    /\ UNCHANGED <<appVars, compVars>>

\* the "Fechar" button of the dock
CloseDockButton ==
    /\ DockVisible
    /\ isEditMode' = FALSE
    /\ ClearSelectionState
    /\ last' = AppObs
    /\ UNCHANGED <<selectionMode, viewMode, visiblePagesCount, singlePageViewIndex>>
    /\ UNCHANGED <<appVars, compVars>>

\* the round edit-mode button
ToggleEditMode ==
    /\ activeProjectId # "" /\ ~ModalVisible
    /\ isEditMode' = ~isEditMode
    /\ ClearSelectionState
    /\ last' = AppObs
    /\ UNCHANGED <<selectionMode, viewMode, visiblePagesCount, singlePageViewIndex>>
    /\ UNCHANGED <<appVars, compVars>>

\* the Feed / Foco / Grade buttons
setViewMode(v) ==
    /\ Len(translatedPageNumbers) > 0
    /\ viewMode' = v
    /\ visiblePagesCount' = IF v = "feed" THEN FeedInitialCount ELSE visiblePagesCount
    /\ last' = AppObs
    /\ UNCHANGED <<isEditMode, selectionMode, singlePageViewIndex,
                   activeEditPageNumber, selectedIndices>>
    /\ UNCHANGED appVars
    /\ Rerender

\* the previous-page button (disabled at index 0)
PrevPageButton ==
    /\ viewMode \in {"single", "grid"}
    /\ Len(translatedPageNumbers) > 0
    /\ singlePageViewIndex # 0
    /\ singlePageViewIndex' = Max(0, singlePageViewIndex - 1)
    /\ last' = AppObs
    /\ UNCHANGED <<isEditMode, selectionMode, viewMode, visiblePagesCount,
                   activeEditPageNumber, selectedIndices>>
    /\ UNCHANGED appVars
    /\ Rerender

\* the next-page button (disabled at the last index)
NextPageButton ==
    /\ viewMode \in {"single", "grid"}
    /\ Len(translatedPageNumbers) > 0
    /\ singlePageViewIndex # Len(translatedPageNumbers) - 1
    /\ singlePageViewIndex' = Min(Len(translatedPageNumbers) - 1, singlePageViewIndex + 1)
    /\ last' = AppObs
    /\ UNCHANGED <<isEditMode, selectionMode, viewMode, visiblePagesCount,
                   activeEditPageNumber, selectedIndices>>
    /\ UNCHANGED appVars
    /\ Rerender

----------------------------------------------------------------------------
(* The selection specification: a loaded project whose pages are translated *)

vars == <<appVars, uiVars, compVars, obsVars>>

\* the selection state of a freshly rendered App
UiInit ==
    /\ isEditMode = FALSE
    /\ selectionMode = "points"
    /\ viewMode = "feed"
    /\ visiblePagesCount = FeedInitialCount
    /\ singlePageViewIndex = 0
    /\ activeEditPageNumber = NoPage
    /\ selectedIndices = <<>>
    /\ dragStart = [p \in PageNumbers |-> Null]
    /\ dragCurrent = [p \in PageNumbers |-> Null]
    /\ pointAnchor = [p \in PageNumbers |-> Null]
    /\ last = NoCallback

\* no translation pass has run in this session
PassIdle ==
    /\ useAI = FALSE
    /\ hasStoredKey = FALSE
    /\ showApiKeyModal = FALSE
    /\ rangeInput = [start |-> 1, end |-> NumPages]
    /\ isProcessing = FALSE
    /\ progress = 0
    /\ alertMsg = ""
    /\ pass = IdlePass

HitIdle == hit = NoHit

Init ==
    /\ activeProjectId = "proj1"
    /\ batches = [n \in PageNumbers |-> TranslatedPage(n, PageSegs(n))]
    /\ store = [pid \in ProjectIds |-> IF pid = "proj1" THEN batches ELSE NoPages]
    /\ LibIdle
    /\ EditIdle
    /\ DrawIdle
    /\ UiInit
    /\ PassIdle
    /\ HitIdle

Next ==
    \/ \E p \in PageNumbers, pt \in DownPts : handleMouseDown(p, pt)
    \/ \E p \in PageNumbers, pt \in MovePts : handleMouseMove(p, pt)
    \/ \E p \in PageNumbers, pt \in Pts : handleMouseUp(p, pt)
    \/ \E m \in {"single", "area", "points"} : setSelectionMode(m)
    \/ ClearButton
    \/ CloseDockButton
    \/ ToggleEditMode
    \/ \E v \in {"feed", "single", "grid"} : setViewMode(v)
    \/ PrevPageButton
    \/ NextPageButton

Spec == Init /\ [][Next]_vars

----------------------------------------------------------------------------
(* The hit-test specification: the two reduce loops applied to one segment *)

\* coordinates of the sampled corners and segments (hundredths)
HitCoords == {15, 20, 30, 35, 50, 60}

HitSegs == { Seg(x, y, w, h) : x \in {20, 35}, y \in {30, 50}, w \in {0, 10}, h \in {0, 5} }

HitCorners == { Pt(x, y) : x \in HitCoords, y \in HitCoords }

\* segments.reduce(...) of the points branch and of the area branch
ApplyHitTest ==
    /\ ~hit.done
    /\ hit' = [hit EXCEPT !.done = TRUE,
                          !.points = PointsReduce(<<hit.seg>>, 0, hit.a, hit.b),
                          !.area = AreaReduce(<<hit.seg>>, 0, hit.a, hit.b)]
    /\ UNCHANGED <<activeProjectId, batches, passVars, libVars, uiVars, compVars, obsVars>>
    /\ UNCHANGED <<drawVars, editVars, exportVars>>

InitHit ==
    /\ activeProjectId = "proj1"
    /\ batches = [n \in PageNumbers |-> TranslatedPage(n, PageSegs(n))]
    /\ store = [pid \in ProjectIds |-> IF pid = "proj1" THEN batches ELSE NoPages]
    /\ LibIdle
    /\ EditIdle
    /\ DrawIdle
    /\ UiInit
    /\ PassIdle
    /\ hit \in { [NoHit EXCEPT !.seg = s, !.a = a, !.b = b] :
                   s \in HitSegs, a \in HitCorners, b \in HitCorners }

NextHit == ApplyHitTest

SpecHit == InitHit /\ [][NextHit]_vars

----------------------------------------------------------------------------
(* pdfService: the PDF of the active project *)

\* page.getViewport({ scale: 1.0 })
Viewport == [width |-> 100, height |-> 100]

\* a text item of page.getTextContent(); texts are sequences of words,
\* the empty sequence is the empty (or blank) string
Item(str, tx, ty, width, a) ==
    [str |-> str, transform |-> <<a, 0, 0, a, tx, ty>>, width |-> width]

\* textContent.items of page n
PdfItems(n) ==
    IF n % 2 = 1
    THEN << Item(<<"a">>, 20, 70, 10, 5), Item(<<>>, 0, 0, 0, 5),
            Item(<<"b">>, 45, 45, 10, 10), Item(<<"c">>, 48, 48, 6, 4) >>
    ELSE << Item(<<"useEffect", "build">>, 48, 48, 6, 4),
            Item(<<"npm", "install">>, 45, 45, 10, 10) >>

\* Math.sqrt on the integers of the sample
ISqrt(n) == CHOOSE r \in 0..n : r * r <= n /\ (r + 1) * (r + 1) > n

\* the .map callback of extractTextSegments (ratios in hundredths)
SegmentOf(item) ==
    LET tx == item.transform[5]
        ty == item.transform[6]
        fontSize == ISqrt(item.transform[1] * item.transform[1]
                          + item.transform[2] * item.transform[2])
    IN  [text |-> item.str,
         xRatio |-> (tx * 100) \div Viewport.width,
         yRatio |-> ((Viewport.height - ty) * 100) \div Viewport.height,
         widthRatio |-> (item.width * 100) \div Viewport.width,
         heightRatio |-> (fontSize * 100) \div Viewport.height]

RECURSIVE MapItems(_)
\* .filter(item => item.str && item.str.trim().length > 0).map(...)
MapItems(items) ==
    IF items = <<>> THEN <<>>
    ELSE (IF Head(items).str # <<>> THEN <<SegmentOf(Head(items))>> ELSE <<>>)
         \o MapItems(Tail(items))

extractTextSegments(n) == MapItems(PdfItems(n))

\* getPageImage: the base64 JPEG of the rendered page, '' when
\* canvas.getContext('2d') gives no context
getPageImage(n, context) == IF context THEN "img" ELSE ""

----------------------------------------------------------------------------
(* translateFree *)

\* TECHNICAL_PATTERNS.length
NumPatterns == 11

\* the 1-based position in TECHNICAL_PATTERNS of the pattern a sample word
\* matches, 0 when it matches none
TechnicalPattern(w) ==
    CASE w = "node" -> 1
      [] w = "build" -> 6
      [] w = "app.js" -> 7
      [] w = "useEffect" -> 8
      [] w = "--save" -> 11
      [] OTHER -> 0

\* /^(node|npm|git|yarn|sudo|docker|cd|ls|mkdir)\b/i
CommandWords == {"node", "npm", "git", "yarn", "sudo", "docker", "cd", "ls", "mkdir"}

\* sample words made of [\w\d\-_.] only that include a '.'
DottedWords == {"app.js"}

isPureCode(text) ==
    /\ text # <<>>
    /\ \/ Head(text) \in CommandWords
       \/ Len(text) = 1 /\ Head(text) \in DottedWords

\* `[[_${tokenCount++}_]]`
TokenIds == <<"[[_0_]]", "[[_1_]]", "[[_2_]]">>

TokenId(k) == TokenIds[k + 1]

RECURSIVE ReplaceMatches(_, _, _)
\* processed.replace(pattern, match => tokenId): the words matching pattern j,
\* from left to right; tokens[k + 1] is the text token k stands for
ReplaceMatches(words, j, tokens) ==
    IF words = <<>> THEN [processed |-> <<>>, tokens |-> tokens]
    ELSE IF TechnicalPattern(Head(words)) = j
         THEN LET rest == ReplaceMatches(Tail(words), j, Append(tokens, Head(words)))
              IN  [processed |-> <<TokenId(Len(tokens))>> \o rest.processed,
                   tokens |-> rest.tokens]
         ELSE LET rest == ReplaceMatches(Tail(words), j, tokens)
              IN  [processed |-> <<Head(words)>> \o rest.processed,
                   tokens |-> rest.tokens]

RECURSIVE ForEachPattern(_, _, _)
\* TECHNICAL_PATTERNS.forEach(pattern => ...)
ForEachPattern(words, j, tokens) ==
    IF j > NumPatterns THEN [processed |-> words, tokens |-> tokens]
    ELSE LET r == ReplaceMatches(words, j, tokens)
         IN  ForEachPattern(r.processed, j + 1, r.tokens)

\* the .map callback that builds the vault
Vault(text) ==
    IF isPureCode(text)
    THEN [isCode |-> TRUE, original |-> text, processed |-> text, tokens |-> <<>>]
    ELSE LET r == ForEachPattern(text, 1, <<>>)
         IN  [isCode |-> FALSE, original |-> text, processed |-> r.processed,
              tokens |-> r.tokens]

\* Object.entries(v.tokens).forEach: every token is replaced by its text
RestoreTokens(words, tokens) ==
    [i \in 1..Len(words) |->
        IF \E k \in 1..Len(tokens) : words[i] = TokenId(k - 1)
        THEN tokens[CHOOSE k \in 1..Len(tokens) : words[i] = TokenId(k - 1)]
        ELSE words[i]]

\* fullTranslated.split(/\s?\|\|\|\s?/): the text is given as the list of its
\* delimiter-separated parts; the empty text splits into one empty part
SplitParts(list) == IF list = <<>> THEN << <<>> >> ELSE list

\* translatedParts[i] || v.original
PartOrOriginal(translatedParts, i, original) ==
    IF i <= Len(translatedParts) /\ translatedParts[i] # <<>>
    THEN translatedParts[i]
    ELSE original

\* variant: the parts of the answer are returned as they were split
translateFree_PartsOnly(texts, o) ==
    IF texts = <<>> THEN <<>>
    ELSE IF o.kind # "list" THEN texts
    ELSE SplitParts(o.list)

\* translateFree(texts, ...) when the request ends with outcome o:
\* "fail" (fetch rejects or !response.ok), "nodata" (no data[0]), "list"
translateFree(texts, o) ==
    IF texts = <<>> THEN <<>>
    ELSE IF o.kind # "list" THEN texts
    ELSE LET translatedParts == SplitParts(o.list)
         IN  [i \in 1..Len(texts) |->
                LET v == Vault(texts[i])
                IN  IF v.isCode THEN v.original
                    ELSE RestoreTokens(
                           PartOrOriginal(translatedParts, i, v.original), v.tokens)]

----------------------------------------------------------------------------
(* geminiService: translateEconomic *)

\* translateEconomic(texts, ...) when the model call ends with outcome o:
\* "fail" (the call rejects), "nodata" (response.text is empty), "list"
\* (JSON.parse(jsonStr)); a stored key is passed as manualKey
translateEconomic(texts, o) ==
    IF texts = <<>> THEN [ok |-> TRUE, value |-> <<>>, message |-> ""]
    ELSE IF o.kind = "list" THEN [ok |-> TRUE, value |-> o.list, message |-> ""]
    ELSE [ok |-> FALSE, value |-> <<>>, message |-> "Falha na traducao IA"]

----------------------------------------------------------------------------
(* App: the translation pass *)

\* the strings a backend answers with for page n
RespTexts(n) ==
    IF n % 2 = 1 THEN { <<>>, <<"x">>, <<"y">> }
    ELSE { <<>>, <<"x">>, <<"[[_1_]]", "z">> }

\* the outcomes of one backend call for page n
Outcomes(n) ==
    { [kind |-> "fail", list |-> <<>>], [kind |-> "nodata", list |-> <<>>] }
    \cup { [kind |-> "list", list |-> l] :
             l \in UNION { [1..m -> RespTexts(n)] : m \in 0..MaxTexts } }

\* values typed into the two range inputs
RangeSamples ==
    { [start |-> 1, end |-> NumPages], [start |-> 0, end |-> 1],
      [start |-> 2, end |-> NumPages + 1] }

\* variant: the entry is taken whenever the list has one, even an empty string
TextOrOriginal_AnyEntry(translatedTexts, i, text) ==
    IF i <= Len(translatedTexts) THEN translatedTexts[i] ELSE text

\* translatedTexts[i] || s.text
TextOrOriginal(translatedTexts, i, text) ==
    IF i <= Len(translatedTexts) /\ translatedTexts[i] # <<>>
    THEN translatedTexts[i]
    ELSE text

\* segs.map((s, i) => ({ ...s, text: translatedTexts[i] || s.text, originalText: s.text }))
BuildSegments(segs, translatedTexts) ==
    [i \in 1..Len(segs) |->
        [text |-> TextOrOriginal(translatedTexts, i, segs[i].text),
         originalText |-> segs[i].text,
         xRatio |-> segs[i].xRatio, yRatio |-> segs[i].yRatio,
         widthRatio |-> segs[i].widthRatio, heightRatio |-> segs[i].heightRatio]]

\* Math.round((num / den) * 100)
RoundPercent(num, den) == (200 * num + den) \div (2 * den)

\* variant: the pass ends and the flag stays
Finally_KeepsProcessing ==
    /\ isProcessing' = isProcessing
    /\ progress' = 0
    /\ pass' = [IdlePass EXCEPT !.runs = pass.runs + 1]

\* finally { setState(s => ({ ...s, isProcessing: false })); setProgress(0); }
Finally ==
    /\ isProcessing' = FALSE
    /\ progress' = 0
    /\ pass' = [IdlePass EXCEPT !.runs = pass.runs + 1]

\* variant: the message of e is shown as it is
MessageOrDefault_NoDefault(message) == message

\* e.message || "Erro na tradução."
MessageOrDefault(message) == IF message = "" THEN "Erro na traducao." ELSE message

\* catch (e) { alert(e.message || "Erro na tradução.") } followed by finally;
\* the idle record keeps the outcome that raised e
Catch(o, message) ==
    /\ alertMsg' = MessageOrDefault(message)
    /\ isProcessing' = FALSE
    /\ progress' = 0
    /\ pass' = [IdlePass EXCEPT !.runs = pass.runs + 1, !.outcome = o]

\* variant: the typed start is used as it is
PassStart_Unclamped(typed) == typed

\* const start = Math.max(1, parseInt(rangeInput.start))
PassStart(typed) == Max(1, typed)

\* const end = Math.min(state.numPages, parseInt(rangeInput.end))
PassEnd(typed) == Min(NumPages, typed)

\* what a rejected promise of the loop body carries: e.message, possibly empty
ErrorMessages == {"", "erro"}

\* the outcome recorded for a rejection that is not a backend's
Rejected(kind) == [kind |-> kind, list |-> <<>>]

\* the "Traduzir" button up to the first await of the loop
startTranslation ==
    /\ ~isProcessing /\ ~ModalVisible
    /\ activeProjectId # "" /\ pdfInstance # ""
    /\ pass.runs < MaxPasses
    /\ IF useAI /\ ~hasStoredKey
       THEN /\ showApiKeyModal' = TRUE
            /\ UNCHANGED <<isProcessing, progress, pass>>
       ELSE LET start == PassStart(rangeInput.start)
                end == PassEnd(rangeInput.end)
            IN  /\ IF start <= end
                   THEN /\ isProcessing' = TRUE
                        /\ progress' = 0
                        /\ pass' = [pass EXCEPT !.pc = "page", !.n = start,
                                                !.start = start, !.end = end,
                                                !.useAI = useAI,
                                                !.projectId = activeProjectId]
                   ELSE Finally
                /\ UNCHANGED showApiKeyModal
    /\ UNCHANGED <<useAI, hasStoredKey, rangeInput, alertMsg, store>>
    /\ UNCHANGED <<activeProjectId, batches, hit, drawVars, editVars, exportVars, libVars, uiVars, compVars, obsVars>>

\* the loop body from getPageImage to the call of db.savePage; the backend
\* call for page n ends with outcome o
TranslatePage(o) ==
    /\ pass.pc = "page"
    /\ o \in Outcomes(pass.n)
    /\ LET n == pass.n
           imgD == getPageImage(n, context2d)
           segs == extractTextSegments(n)
           textsToTranslate == [i \in 1..Len(segs) |-> segs[i].text]
           answer == IF pass.useAI
                     THEN translateEconomic(textsToTranslate, o)
                     ELSE [ok |-> TRUE, value |-> translateFree(textsToTranslate, o),
                           message |-> ""]
       IN  IF answer.ok
           THEN /\ pass' = [pass EXCEPT
                              !.pc = "saving", !.outcome = o,
                              !.requested = Append(pass.requested, n),
                              !.translatedTexts = answer.value,
                              !.entry = [pageNumber |-> n, imageData |-> imgD,
                                         segments |-> BuildSegments(segs, answer.value)]]
                /\ UNCHANGED <<isProcessing, progress, alertMsg>>
           ELSE Catch(o, answer.message)
    /\ UNCHANGED <<useAI, hasStoredKey, showApiKeyModal, rangeInput, store>>
    /\ UNCHANGED <<activeProjectId, batches, hit, drawVars, editVars, exportVars, libVars, uiVars, compVars, obsVars>>

\* db.savePage completes; updateLocalState, setProgress and the loop test
PageSaved ==
    /\ pass.pc = "saving"
    /\ store' = [store EXCEPT ![pass.projectId][pass.n] = pass.entry]
    /\ batches' = [batches EXCEPT ![pass.n] = pass.entry]
    /\ IF pass.n + 1 <= pass.end
       THEN /\ progress' = RoundPercent(pass.n - pass.start + 1,
                                        pass.end - pass.start + 1)
            /\ pass' = [pass EXCEPT !.pc = "page", !.n = pass.n + 1,
                                    !.saved = Append(pass.saved, pass.n)]
            /\ UNCHANGED isProcessing
       ELSE Finally
    /\ UNCHANGED <<useAI, hasStoredKey, showApiKeyModal, rangeInput, alertMsg>>
    /\ UNCHANGED <<activeProjectId, hit, drawVars, editVars, exportVars, libVars, uiVars, obsVars>>
    /\ Rerender

\* pdf.getPage, page.render or page.getTextContent rejects for page n
PdfFails(message) ==
    /\ pass.pc = "page"
    /\ Catch(Rejected("pdf"), message)
    /\ UNCHANGED <<useAI, hasStoredKey, showApiKeyModal, rangeInput, store>>
    /\ UNCHANGED <<activeProjectId, batches, hit, drawVars, editVars, exportVars, libVars, uiVars, compVars, obsVars>>

\* the transaction of db.savePage fails: reject(transaction.error)
SaveFails(message) ==
    /\ pass.pc = "saving"
    /\ Catch(Rejected("save"), message)
    /\ UNCHANGED <<useAI, hasStoredKey, showApiKeyModal, rangeInput, store>>
    /\ UNCHANGED <<activeProjectId, batches, hit, drawVars, editVars, exportVars, libVars, uiVars, compVars, obsVars>>

\* the AI / free switch
ToggleUseAI ==
    /\ activeProjectId # ""
    /\ useAI' = ~useAI
    /\ UNCHANGED <<hasStoredKey, showApiKeyModal, rangeInput, isProcessing,
                   progress, alertMsg, store, pass>>
    /\ UNCHANGED <<activeProjectId, batches, hit, drawVars, editVars, exportVars, libVars, uiVars, compVars, obsVars>>

\* typing into the range inputs
setRangeInput(r) ==
    /\ activeProjectId # ""
    /\ rangeInput' = r
    /\ UNCHANGED <<useAI, hasStoredKey, showApiKeyModal, isProcessing,
                   progress, alertMsg, store, pass>>
    /\ UNCHANGED <<activeProjectId, batches, hit, drawVars, editVars, exportVars, libVars, uiVars, compVars, obsVars>>

\* the key dialog's save button, a key being typed
handleSaveKey ==
    /\ showApiKeyModal
    /\ hasStoredKey' = TRUE
    /\ showApiKeyModal' = FALSE
    /\ UNCHANGED <<useAI, rangeInput, isProcessing, progress, alertMsg, store, pass>>
    /\ UNCHANGED <<activeProjectId, batches, hit, drawVars, editVars, exportVars, libVars, uiVars, compVars, obsVars>>

\* the key dialog's close button
CloseKeyModal ==
    /\ showApiKeyModal
    /\ showApiKeyModal' = FALSE
    /\ UNCHANGED <<useAI, hasStoredKey, rangeInput, isProcessing, progress,
                   alertMsg, store, pass>>
    /\ UNCHANGED <<activeProjectId, batches, hit, drawVars, editVars, exportVars, libVars, uiVars, compVars, obsVars>>

\* a new project: nothing translated yet
InitPass ==
    /\ activeProjectId = "proj1"
    /\ batches = [n \in PageNumbers |-> AbsentPage]
    /\ store = [pid \in ProjectIds |-> IF pid = "proj1" THEN batches ELSE NoPages]
    /\ LibIdle
    /\ EditIdle
    /\ DrawIdle
    /\ UiInit
    /\ PassIdle
    /\ HitIdle

NextPass ==
    \/ startTranslation
    \/ \E n \in PageNumbers : \E o \in Outcomes(n) : TranslatePage(o)
    \/ PageSaved
    \/ \E m \in ErrorMessages : PdfFails(m)
    \/ \E m \in ErrorMessages : SaveFails(m)
    \/ ToggleUseAI
    \/ \E r \in RangeSamples : setRangeInput(r)
    \/ handleSaveKey
    \/ CloseKeyModal

SpecPass == InitPass /\ [][NextPass]_vars

\* one outcome of each kind of a backend call
LiveOutcomes(n) ==
    { [kind |-> "fail", list |-> <<>>], [kind |-> "nodata", list |-> <<>>],
      [kind |-> "list", list |-> << <<"x">> >>] }

\* an awaited promise of the loop body settles: it resolves or it rejects
PageSettles ==
    \/ \E m \in ErrorMessages : PdfFails(m)
    \/ \E n \in PageNumbers : \E o \in LiveOutcomes(n) : TranslatePage(o)

\* the promise of db.savePage settles
SaveSettles == PageSaved \/ \E m \in ErrorMessages : SaveFails(m)

NextPassLive ==
    \/ startTranslation
    \/ PageSettles
    \/ SaveSettles
    \/ ToggleUseAI
    \/ \E r \in RangeSamples : setRangeInput(r)
    \/ handleSaveKey
    \/ CloseKeyModal

\* the pass under the event loop: every awaited promise settles
SpecPassLive ==
    InitPass /\ [][NextPassLive]_vars /\ WF_vars(PageSettles) /\ WF_vars(SaveSettles)

----------------------------------------------------------------------------
(* App: the library, loadProject and handleDeleteProject *)

\* the outcomes of a backend call in the flows below
FlowOutcomes(n) ==
    { [kind |-> "fail", list |-> <<>>], [kind |-> "list", list |-> << <<"x">> >>] }

\* the logo and the "Meus Projetos" button: setState(s => ({...s, activeProjectId: null}))
ReturnToLibrary ==
    /\ activeProjectId # "" /\ ~ModalVisible
    /\ activeProjectId' = ""
    /\ UNCHANGED <<batches, passVars, hit, drawVars, editVars, exportVars, libVars, uiVars, obsVars>>
    /\ Rerender

\* a click on a project card: loadProject up to the end of its reads
\* (getAllProjects, getProjectPages, getFile)
LoadRead(id) ==
    /\ activeProjectId = "" /\ ~confirmDialog.isOpen
    /\ id \in projects
    /\ loadOp.pc = "idle"
    /\ id \in dbProjects          \* if (!p) return
    /\ loadOp' = [pc |-> "apply", id |-> id, pgs |-> store[id], buf |-> id \in dbFiles]
    /\ UNCHANGED <<dbProjects, dbFiles, projects, pdfInstance, confirmDialog, deleted>>
    /\ UNCHANGED <<activeProjectId, batches, passVars, hit, drawVars, editVars, exportVars, uiVars, compVars, obsVars>>

\* loadProject: setPdfInstance, setState, setRangeInput and the view resets
LoadApply ==
    /\ loadOp.pc = "apply"
    /\ pdfInstance' = IF loadOp.buf THEN loadOp.id ELSE pdfInstance
    /\ activeProjectId' = loadOp.id
    /\ batches' = loadOp.pgs
    /\ selectedPages' = { n \in PageNumbers : loadOp.pgs[n].pageNumber # NoPage }
    /\ rangeInput' = [start |-> 1, end |-> NumPages]
    /\ visiblePagesCount' = FeedInitialCount
    /\ singlePageViewIndex' = 0
    /\ viewMode' = "feed"
    /\ loadOp' = NoLoad
    /\ UNCHANGED <<dbProjects, dbFiles, projects, confirmDialog, deleted>>
    /\ UNCHANGED <<useAI, hasStoredKey, showApiKeyModal, isProcessing, progress,
                   alertMsg, store, pass, hit, drawVars, editVars, isExporting, exported>>
    /\ UNCHANGED <<isEditMode, selectionMode, activeEditPageNumber, selectedIndices,
                   obsVars>>
    /\ Rerender

\* the trash button of a project card
handleDeleteProject(id) ==
    /\ activeProjectId = "" /\ ~confirmDialog.isOpen
    /\ id \in projects
    /\ confirmDialog' = [NoDialog EXCEPT !.isOpen = TRUE, !.kind = "project", !.id = id]
    /\ UNCHANGED <<dbProjects, dbFiles, projects, pdfInstance, loadOp, deleted>>
    /\ UNCHANGED <<activeProjectId, batches, passVars, hit, drawVars, editVars, exportVars, uiVars, compVars, obsVars>>

\* the dialog's "Cancelar"
CancelConfirm ==
    /\ confirmDialog.isOpen /\ ~confirmDialog.running
    /\ confirmDialog' = NoDialog
    /\ UNCHANGED <<dbProjects, dbFiles, projects, pdfInstance, loadOp, deleted>>
    /\ UNCHANGED <<activeProjectId, batches, passVars, hit, drawVars, editVars, exportVars, uiVars, compVars, obsVars>>

\* the dialog's "Confirmar": onConfirm runs up to its first await
ConfirmClick ==
    /\ confirmDialog.isOpen /\ ~confirmDialog.running
    /\ confirmDialog' = [confirmDialog EXCEPT !.running = TRUE]
    /\ UNCHANGED <<dbProjects, dbFiles, projects, pdfInstance, loadOp, deleted>>
    /\ UNCHANGED <<activeProjectId, batches, passVars, hit, drawVars, editVars, exportVars, uiVars, compVars, obsVars>>

\* db.deleteProject: one transaction over 'projects', 'files' and 'pages'
deleteProject(id) ==
    /\ dbProjects' = dbProjects \ {id}
    /\ dbFiles' = dbFiles \ {id}
    /\ store' = [store EXCEPT ![id] = NoPages]

\* the transaction of db.deleteProject completes; refreshProjects; the dialog closes
DeleteProjectDone ==
    /\ confirmDialog.running /\ confirmDialog.kind = "project"
    /\ deleteProject(confirmDialog.id)
    /\ projects' = dbProjects'
    /\ confirmDialog' = NoDialog
    /\ deleted' = deleted \cup {confirmDialog.id}
    /\ UNCHANGED <<pdfInstance, loadOp>>
    /\ UNCHANGED <<useAI, hasStoredKey, showApiKeyModal, rangeInput, isProcessing,
                   progress, alertMsg, pass>>
    /\ UNCHANGED <<activeProjectId, batches, hit, drawVars, editVars, exportVars, uiVars, compVars, obsVars>>

\* project proj1 is open with page NumPages translated; proj2 holds page 1
InitFlow ==
    /\ activeProjectId = "proj1"
    /\ batches = [n \in PageNumbers |->
                    IF n = NumPages THEN TranslatedPage(n, PageSegs(n)) ELSE AbsentPage]
    /\ store = [pid \in ProjectIds |->
                  IF pid = "proj1" THEN batches
                  ELSE [n \in PageNumbers |->
                          IF n = 1 THEN TranslatedPage(n, PageSegs(n)) ELSE AbsentPage]]
    /\ LibIdle
    /\ EditIdle
    /\ DrawIdle
    /\ UiInit
    /\ PassIdle
    /\ HitIdle

NextFlow ==
    \/ startTranslation
    \/ \E n \in PageNumbers : \E o \in FlowOutcomes(n) : TranslatePage(o)
    \/ PageSaved
    \/ ReturnToLibrary
    \/ \E id \in ProjectIds : LoadRead(id)
    \/ LoadApply
    \/ \E id \in ProjectIds : handleDeleteProject(id)
    \/ CancelConfirm
    \/ ConfirmClick
    \/ DeleteProjectDone

SpecFlow == InitFlow /\ [][NextFlow]_vars

----------------------------------------------------------------------------
(* App: the batch editor *)

\* the index lists a canvas reports through onSelectionChange
IndexSamples == { <<0>>, <<1, 0>> }

\* what is typed into a textarea of the editor
TypedTexts == { <<>>, <<"e">> }

\* a canvas of page p reports a selection
SelectionReported(indices, p) ==
    /\ isEditMode /\ activeProjectId # "" /\ ~ModalVisible
    /\ p \in MountedCanvases /\ HasPage(p)
    /\ \A k \in 1..Len(indices) : indices[k] < Len(batches[p].segments)
    /\ onSelectionChange(indices, p)
    /\ UNCHANGED <<isEditMode, selectionMode, viewMode, visiblePagesCount,
                   singlePageViewIndex>>
    /\ UNCHANGED <<appVars, compVars, obsVars>>

\* { index: i, text, original: originalText || text, initialTranslation: text,
\*   selected: true }
ItemOf(page, i) ==
    LET seg == page.segments[i + 1]
    IN  [index |-> i, text |-> seg.text,
         original |-> IF seg.originalText # <<>> THEN seg.originalText ELSE seg.text,
         initialTranslation |-> seg.text, selected |-> TRUE]

\* the "Editor Ativo" button
OpenBatchEditor ==
    /\ activeProjectId # "" /\ ~ModalVisible
    /\ Len(selectedIndices) > 0 /\ isEditMode /\ activeEditPageNumber # NoPage
    /\ LET page == batches[activeEditPageNumber]
       IN  IF page.pageNumber # NoPage
           THEN batchEditingData' =
                  [open |-> TRUE,
                   items |-> [k \in 1..Len(selectedIndices) |->
                                ItemOf(page, selectedIndices[k])],
                   sel |-> selectedIndices, active |-> activeEditPageNumber]
           ELSE UNCHANGED batchEditingData
    /\ UNCHANGED <<saveOp, exportVars>>
    /\ UNCHANGED <<activeProjectId, batches, passVars, hit, drawVars, libVars>>
    /\ UNCHANGED <<uiVars, compVars, obsVars>>

\* an editor handler that replaces the working copy by items
SetItems(items) ==
    /\ ModalVisible
    /\ batchEditingData' = [batchEditingData EXCEPT !.items = items]
    /\ UNCHANGED <<saveOp, exportVars>>
    /\ UNCHANGED <<activeProjectId, batches, passVars, hit, drawVars, libVars>>
    /\ UNCHANGED <<uiVars, compVars, obsVars>>

\* the textarea of item i: copy[i] = { ...copy[i], text: e.target.value }
EditorType(i, t) ==
    /\ i \in 1..Len(batchEditingData.items)
    /\ SetItems([batchEditingData.items EXCEPT ![i].text = t])

\* the check box of item i
EditorToggleItem(i) ==
    /\ i \in 1..Len(batchEditingData.items)
    /\ SetItems([batchEditingData.items EXCEPT ![i].selected = ~@])

\* "Selecionar Todos"
EditorSelectAll ==
    LET prev == batchEditingData.items
        allSelected == \A k \in 1..Len(prev) : prev[k].selected
    IN  SetItems([k \in 1..Len(prev) |-> [prev[k] EXCEPT !.selected = ~allSelected]])

\* "Restaurar Original"
EditorRestoreOriginal ==
    LET prev == batchEditingData.items
    IN  /\ \E k \in 1..Len(prev) : prev[k].selected
        /\ SetItems([k \in 1..Len(prev) |->
                       IF prev[k].selected
                       THEN [prev[k] EXCEPT !.text = prev[k].original]
                       ELSE prev[k]])

\* variant: every item is set back, marked or not
EditorRestoreTranslation_All ==
    LET prev == batchEditingData.items
    IN  /\ \E k \in 1..Len(prev) : prev[k].selected
        /\ SetItems([k \in 1..Len(prev) |->
                       [prev[k] EXCEPT !.text = prev[k].initialTranslation]])

\* "Restaurar Tradução"
EditorRestoreTranslation ==
    LET prev == batchEditingData.items
    IN  /\ \E k \in 1..Len(prev) : prev[k].selected
        /\ SetItems([k \in 1..Len(prev) |->
                       IF prev[k].selected
                       THEN [prev[k] EXCEPT !.text = prev[k].initialTranslation]
                       ELSE prev[k]])

\* variant: closing the editor also drops the selection
EditorCancel_ClearsSelection ==
    /\ ModalVisible
    /\ batchEditingData' = NoEditor
    /\ ClearSelectionState
    /\ UNCHANGED <<saveOp, exportVars>>
    /\ UNCHANGED <<activeProjectId, batches, passVars, hit, drawVars, libVars>>
    /\ UNCHANGED <<isEditMode, selectionMode, viewMode, visiblePagesCount,
                   singlePageViewIndex, compVars, obsVars>>

\* the X button and "Cancelar": setBatchEditingData(null)
EditorCancel ==
    /\ ModalVisible
    /\ batchEditingData' = NoEditor
    /\ UNCHANGED <<saveOp, exportVars>>
    /\ UNCHANGED <<activeProjectId, batches, passVars, hit, drawVars, libVars>>
    /\ UNCHANGED <<uiVars, compVars, obsVars>>

\* the items that write segment j (0-based), in forEach order
ItemsFor(items, j) == { k \in 1..Len(items) : items[k].index = j }

\* variant: the edited text also becomes the segment's originalText
ApplyItems_WithOriginal(page, items) ==
    [page EXCEPT !.segments =
        [j \in 1..Len(page.segments) |->
            IF ItemsFor(items, j - 1) = {} THEN page.segments[j]
            ELSE LET k == CHOOSE k \in ItemsFor(items, j - 1) :
                            \A l \in ItemsFor(items, j - 1) : l <= k
                 IN  [page.segments[j] EXCEPT !.text = items[k].text,
                                              !.originalText = items[k].text]]]

\* variant: the edited texts are written to the segments in list order
ApplyItems_ByPosition(page, items) ==
    [page EXCEPT !.segments =
        [j \in 1..Len(page.segments) |->
            IF j <= Len(items) THEN [page.segments[j] EXCEPT !.text = items[j].text]
            ELSE page.segments[j]]]

\* const newPage = JSON.parse(JSON.stringify(page));
\* batchEditingData.forEach(item => { newPage.segments[item.index].text = item.text; })
ApplyItems(page, items) ==
    [page EXCEPT !.segments =
        [j \in 1..Len(page.segments) |->
            IF ItemsFor(items, j - 1) = {} THEN page.segments[j]
            ELSE LET k == CHOOSE k \in ItemsFor(items, j - 1) :
                            \A l \in ItemsFor(items, j - 1) : l <= k
                 IN  [page.segments[j] EXCEPT !.text = items[k].text]]]

\* "Salvar Alterações" up to the await of db.savePage
EditorSaveClick ==
    /\ ModalVisible
    /\ saveOp.pc = "idle" /\ saveOp.runs < MaxSaves
    /\ LET page == batches[activeEditPageNumber]
       IN  IF page.pageNumber # NoPage
           THEN saveOp' = [pc |-> "saving", projectId |-> activeProjectId,
                           base |-> page, items |-> batchEditingData.items,
                           page |-> ApplyItems(page, batchEditingData.items),
                           runs |-> saveOp.runs + 1]
           ELSE UNCHANGED saveOp
    /\ UNCHANGED <<batchEditingData, exportVars>>
    /\ UNCHANGED <<activeProjectId, batches, passVars, hit, drawVars, libVars>>
    /\ UNCHANGED <<uiVars, compVars, obsVars>>

\* db.savePage of the editor completes: updateLocalState, the editor closes,
\* the selection is cleared
BatchSaved ==
    /\ saveOp.pc = "saving"
    /\ store' = [store EXCEPT ![saveOp.projectId][saveOp.page.pageNumber] = saveOp.page]
    /\ batches' = [batches EXCEPT ![saveOp.page.pageNumber] = saveOp.page]
    /\ batchEditingData' = NoEditor
    /\ ClearSelectionState
    /\ saveOp' = [NoSave EXCEPT !.runs = saveOp.runs]
    /\ UNCHANGED <<useAI, hasStoredKey, showApiKeyModal, rangeInput, isProcessing,
                   progress, alertMsg, pass>>
    /\ UNCHANGED <<activeProjectId, hit, drawVars, libVars, exportVars>>
    /\ UNCHANGED <<isEditMode, selectionMode, viewMode, visiblePagesCount,
                   singlePageViewIndex, obsVars>>
    /\ Rerender

\* the page a pass stores for page n when the backend translates every text to "t"
PassPage(n) ==
    LET segs == extractTextSegments(n)
    IN  [pageNumber |-> n, imageData |-> getPageImage(n, TRUE),
         segments |-> BuildSegments(segs, [i \in 1..Len(segs) |-> <<"t">>])]

\* project proj1 is open with both pages translated by an earlier pass
InitEdit ==
    /\ activeProjectId = "proj1"
    /\ batches = [n \in PageNumbers |-> PassPage(n)]
    /\ store = [pid \in ProjectIds |-> IF pid = "proj1" THEN batches ELSE NoPages]
    /\ LibIdle
    /\ EditIdle
    /\ DrawIdle
    /\ UiInit
    /\ PassIdle
    /\ HitIdle

NextEdit ==
    \/ ToggleEditMode
    \/ \E p \in PageNumbers : \E indices \in IndexSamples : SelectionReported(indices, p)
    \/ OpenBatchEditor
    \/ \E i \in 1..MaxTexts : \E t \in TypedTexts : EditorType(i, t)
    \/ \E i \in 1..MaxTexts : EditorToggleItem(i)
    \/ EditorSelectAll
    \/ EditorRestoreOriginal
    \/ EditorRestoreTranslation
    \/ EditorCancel
    \/ EditorSaveClick
    \/ BatchSaved

SpecEdit == InitEdit /\ [][NextEdit]_vars

\* the editor while a translation pass runs: edit mode is on
NextEditPass ==
    \/ \E p \in PageNumbers : \E indices \in IndexSamples : SelectionReported(indices, p)
    \/ OpenBatchEditor
    \/ \E i \in 1..MaxTexts : \E t \in TypedTexts : EditorType(i, t)
    \/ EditorCancel
    \/ EditorSaveClick
    \/ BatchSaved
    \/ startTranslation
    \/ \E n \in PageNumbers : \E o \in FlowOutcomes(n) : TranslatePage(o)
    \/ PageSaved

\* as InitEdit, after the round edit-mode button was pressed
InitEditPass ==
    /\ activeProjectId = "proj1"
    /\ batches = [n \in PageNumbers |-> PassPage(n)]
    /\ store = [pid \in ProjectIds |-> IF pid = "proj1" THEN batches ELSE NoPages]
    /\ LibIdle
    /\ EditIdle
    /\ DrawIdle
    /\ isEditMode = TRUE
    /\ selectionMode = "points"
    /\ viewMode = "feed"
    /\ visiblePagesCount = FeedInitialCount
    /\ singlePageViewIndex = 0
    /\ activeEditPageNumber = NoPage
    /\ selectedIndices = <<>>
    /\ dragStart = [p \in PageNumbers |-> Null]
    /\ dragCurrent = [p \in PageNumbers |-> Null]
    /\ pointAnchor = [p \in PageNumbers |-> Null]
    /\ PassIdle
    /\ HitIdle
    /\ last = NoCallback

SpecEditPass == InitEditPass /\ [][NextEditPass]_vars

----------------------------------------------------------------------------
(* App: jumpToPage and exportSelected *)

\* the numbers parseInt(jumpPageInput) gives; NoPage stands for NaN
JumpInputs == 0..(NumPages + 1)

\* the translated pages of the project when it was loaded
NavPageSets == { {1}, {NumPages}, PageNumbers }

\* the selected page numbers that have a page, ascending
RECURSIVE SelectedFrom(_)
SelectedFrom(n) ==
    IF n > NumPages THEN <<>>
    ELSE (IF n \in selectedPages /\ HasPage(n) THEN <<n>> ELSE <<>>)
         \o SelectedFrom(n + 1)

\* state.selectedPages.filter(n => allPagesMap.has(n)).sort((a, b) => a - b)
pagesToExport == SelectedFrom(1)

\* variant: a number that is not found gives the first index
IndexOf_OrFirst(num) ==
    IF \E k \in 1..Len(translatedPageNumbers) : translatedPageNumbers[k] = num
    THEN (CHOOSE k \in 1..Len(translatedPageNumbers) : translatedPageNumbers[k] = num) - 1
    ELSE 0

\* translatedPageNumbers.indexOf(num), 0-based, -1 when absent
IndexOf(num) ==
    IF \E k \in 1..Len(translatedPageNumbers) : translatedPageNumbers[k] = num
    THEN (CHOOSE k \in 1..Len(translatedPageNumbers) : translatedPageNumbers[k] = num) - 1
    ELSE -1

JumpObs(num) == Obs("jump", num, NoBest, {}, NoPage, FALSE, {}, NoPage)

ExportObs == Obs("export", NoPage, NoBest, {}, NoPage, FALSE, {}, NoPage)

\* Enter in the search box: jumpToPage(parseInt(jumpPageInput))
jumpToPage(num) ==
    /\ activeProjectId # "" /\ ~ModalVisible
    /\ Len(translatedPageNumbers) > 0
    /\ LET idx == IndexOf(num)
       IN  IF idx # -1
           THEN /\ IF viewMode \in {"single", "grid"}
                   THEN viewMode' = "single" /\ singlePageViewIndex' = idx
                   ELSE UNCHANGED <<viewMode, singlePageViewIndex>>
                /\ UNCHANGED alertMsg
           ELSE /\ alertMsg' = "Pagina nao encontrada ou ainda nao traduzida."
                /\ UNCHANGED <<viewMode, singlePageViewIndex>>
    /\ last' = JumpObs(num)
    /\ UNCHANGED <<useAI, hasStoredKey, showApiKeyModal, rangeInput, isProcessing,
                   progress, store, pass>>
    /\ UNCHANGED <<activeProjectId, batches, hit, drawVars, libVars, editVars, exportVars>>
    /\ UNCHANGED <<isEditMode, selectionMode, visiblePagesCount, activeEditPageNumber,
                   selectedIndices>>
    /\ Rerender

\* exportSelected up to its first await; the "Compilar PDF" button that calls
\* it is rendered only while translatedSelectedCount > 0, the handler makes
\* its own test
exportSelected ==
    /\ activeProjectId # "" /\ ~ModalVisible /\ ~isEditMode
    /\ ~isExporting
    /\ IF Len(pagesToExport) = 0
       THEN /\ alertMsg' = "Apenas paginas traduzidas podem ser exportadas."
            /\ UNCHANGED <<isExporting, exported>>
       ELSE /\ isExporting' = TRUE
            /\ exported' = [exported EXCEPT
                              !.pending = pagesToExport,
                              !.images = [k \in 1..Len(pagesToExport) |->
                                            batches[pagesToExport[k]].imageData]]
            /\ UNCHANGED alertMsg
    /\ last' = ExportObs
    /\ UNCHANGED <<useAI, hasStoredKey, showApiKeyModal, rangeInput, isProcessing,
                   progress, store, pass>>
    /\ UNCHANGED <<activeProjectId, batches, hit, drawVars, libVars, editVars, selectedPages>>
    /\ UNCHANGED <<uiVars, compVars>>

\* img.onload fires for a JPEG that decodes; for the src
\* 'data:image/jpeg;base64,' of an empty imageData only the error event fires
ImageLoads(imageData) == imageData # ""

\* every image has loaded and was drawn: doc.save and
\* finally { setIsExporting(false) }
ExportDone ==
    /\ isExporting
    /\ context2d
    /\ \A k \in 1..Len(exported.images) : ImageLoads(exported.images[k])
    /\ exported' = [pending |-> <<>>, images |-> <<>>,
                    docs |-> exported.docs \cup {exported.pending}]
    /\ isExporting' = FALSE
    /\ last' = AppObs
    /\ UNCHANGED <<activeProjectId, batches, passVars, hit, drawVars, libVars, editVars,
                   selectedPages>>
    /\ UNCHANGED <<uiVars, compVars>>

\* the first image has loaded and canvas.getContext('2d') gave null:
\* ctx!.drawImage throws, nothing is saved, finally { setIsExporting(false) }
ExportFails ==
    /\ isExporting
    /\ ~context2d
    /\ ImageLoads(exported.images[1])
    /\ exported' = [exported EXCEPT !.pending = <<>>, !.images = <<>>]
    /\ isExporting' = FALSE
    /\ last' = AppObs
    /\ UNCHANGED <<activeProjectId, batches, passVars, hit, drawVars, libVars, editVars,
                   selectedPages>>
    /\ UNCHANGED <<uiVars, compVars>>

\* "Tudo" and "Limpar" of the page toolbar, and the check mark of a page
SetSelectedPages(pages) ==
    /\ activeProjectId # "" /\ ~ModalVisible
    /\ Len(translatedPageNumbers) > 0
    /\ selectedPages' = pages
    /\ last' = AppObs
    /\ UNCHANGED <<activeProjectId, batches, passVars, hit, drawVars, libVars, editVars,
                   isExporting, exported>>
    /\ UNCHANGED <<uiVars, compVars>>

SelectAllPages == SetSelectedPages(Range(translatedPageNumbers))

ClearSelectedPages == SetSelectedPages({})

TogglePageSelected(n) ==
    /\ n \in Range(visiblePageNumbers)
    /\ SetSelectedPages(IF n \in selectedPages THEN selectedPages \ {n}
                        ELSE selectedPages \cup {n})

\* project proj1 was loaded with some of its pages translated
InitNav ==
    /\ activeProjectId = "proj1"
    /\ \E ps \in NavPageSets :
          batches = [n \in PageNumbers |-> IF n \in ps THEN PassPage(n) ELSE AbsentPage]
    /\ store = [pid \in ProjectIds |-> IF pid = "proj1" THEN batches ELSE NoPages]
    /\ LibIdle
    /\ EditIdle
    /\ DrawIdle
    /\ UiInit
    /\ PassIdle
    /\ HitIdle

NextNav ==
    \/ \E num \in JumpInputs : jumpToPage(num)
    \/ exportSelected
    \/ ExportDone
    \/ SelectAllPages
    \/ ClearSelectedPages
    \/ \E n \in PageNumbers : TogglePageSelected(n)
    \/ \E v \in {"feed", "single", "grid"} : setViewMode(v)
    \/ PrevPageButton
    \/ NextPageButton

SpecNav == InitNav /\ [][NextNav]_vars

----------------------------------------------------------------------------
(* The drawing context: pages translated and exported without one *)

\* the browser starts or stops handing out 2d contexts (a canvas limit is
\* reached or freed)
ContextChanges ==
    /\ context2d' = ~context2d
    /\ UNCHANGED <<redraw, draw>>
    /\ UNCHANGED <<activeProjectId, batches, passVars, hit, libVars, editVars,
                   exportVars, uiVars, compVars, obsVars>>

\* the awaited image loads of exportSelected settle
ExportSettles == ExportDone \/ ExportFails

\* a new project; a pass, the page check marks and the export
NextImage ==
    \/ startTranslation
    \/ \E n \in PageNumbers : \E o \in FlowOutcomes(n) : TranslatePage(o)
    \/ PageSaved
    \/ ContextChanges
    \/ SelectAllPages
    \/ \E n \in PageNumbers : TogglePageSelected(n)
    \/ exportSelected
    \/ ExportSettles

SpecImage == InitPass /\ [][NextImage]_vars

\* the export under the event loop: an image load that can settle does
SpecImageLive == InitPass /\ [][NextImage]_vars /\ WF_vars(ExportSettles)

----------------------------------------------------------------------------
(* TranslatedCanvasPage: the redraw effect and its image loads *)

\* image loads of one canvas that may be pending together
MaxLoads == 2

\* what the onload closure of an effect run paints: the values of the
\* effect's dependencies [page, showOriginal, isEditMode, selectedIndices,
\* dragStart, dragCurrent, selectionMode, pointAnchor] in the render that ran
\* it (showOriginal is never switched here)
Frame(p) ==
    [page |-> batches[p], isEditMode |-> isEditMode,
     selectedIndices |-> PropSelectedIndices(p),
     dragStart |-> dragStart[p], dragCurrent |-> dragCurrent[p],
     selectionMode |-> selectionMode, pointAnchor |-> pointAnchor[p]]

\* the effect of the observed canvas runs after a render that changed a
\* dependency: new Image(), img.onload = ..., img.src = ...; a run whose
\* dependencies have the values of the previous run paints the same frame
\* and is left out
RedrawEffect ==
    /\ redraw.page # NoPage /\ redraw.page \in MountedCanvases
    /\ redraw.deps # <<Frame(redraw.page)>>
    /\ Len(redraw.pending) < MaxLoads
    /\ redraw' = IF batches[redraw.page].imageData = "" \/ ~context2d
                 THEN [redraw EXCEPT !.deps = <<Frame(redraw.page)>>]
                 ELSE [redraw EXCEPT !.deps = <<Frame(redraw.page)>>,
                                     !.pending = Append(@, Frame(redraw.page))]
    /\ UNCHANGED <<context2d, draw>>
    /\ UNCHANGED <<activeProjectId, batches, passVars, hit, libVars, editVars,
                   exportVars, uiVars, compVars, obsVars>>

\* variant: the load events fire in the order in which src was assigned
LoadOrder_Fifo(pending) == {1} \cap (1..Len(pending))

\* the pending loads whose load event may fire next: every Image is its own
\* object and nothing in the effect orders or cancels their events
LoadOrder(pending) == 1..Len(pending)

\* img.onload of the k-th pending load: the canvas is resized and painted
\* with the frame of the effect run that created the image
ImageLoaded(k) ==
    /\ k \in LoadOrder(redraw.pending)
    /\ redraw' = [redraw EXCEPT
                    !.painted = <<redraw.pending[k]>>,
                    !.pending = SubSeq(@, 1, k - 1) \o SubSeq(@, k + 1, Len(@))]
    /\ UNCHANGED <<context2d, draw>>
    /\ UNCHANGED <<activeProjectId, batches, passVars, hit, libVars, editVars,
                   exportVars, uiVars, compVars, obsVars>>

\* project proj1 is open with both pages translated; the canvas of page 1 is
\* observed from its mount on
InitRedraw ==
    /\ activeProjectId = "proj1"
    /\ batches = [n \in PageNumbers |-> PassPage(n)]
    /\ store = [pid \in ProjectIds |-> IF pid = "proj1" THEN batches ELSE NoPages]
    /\ LibIdle
    /\ EditIdle
    /\ context2d = TRUE
    /\ redraw = [NoRedraw EXCEPT !.page = 1]
    /\ draw = NoDraw
    /\ UiInit
    /\ PassIdle
    /\ HitIdle

NextRedraw ==
    \/ ToggleEditMode
    \/ \E p \in PageNumbers : \E indices \in IndexSamples : SelectionReported(indices, p)
    \/ ClearButton
    \/ RedrawEffect
    \/ \E k \in 1..MaxLoads : ImageLoaded(k)

SpecRedraw == InitRedraw /\ [][NextRedraw]_vars

----------------------------------------------------------------------------
(* Drawing a segment: the overlay canvas and the export canvas *)

RECURSIVE GCD(_, _)
GCD(a, b) == IF b = 0 THEN a ELSE GCD(b, a % b)

\* a JavaScript number that arises here, as the fraction n / d in lowest
\* terms (d > 0)
Rat(n, d) == LET g == GCD(Abs(n), d) IN [n |-> n \div g, d |-> d \div g]

RatMul(a, b) == Rat(a.n * b.n, a.d * b.d)

RatDiv(a, b) == Rat(a.n * b.d, a.d * b.n)

RatAdd(a, b) == Rat(a.n * b.d + b.n * a.d, a.d * b.d)

RatSub(a, b) == Rat(a.n * b.d - b.n * a.d, a.d * b.d)

RatLess(a, b) == a.n * b.d < b.n * a.d

\* const renderWidth = 1200
OverlayWidth == 1200

\* canvas.width = 1600
ExportWidth == 1600

\* the object extractTextSegments returns for an item of a page whose
\* viewport at scale 1.0 is viewport, with every field, ratios exact
SegmentAt(item, viewport) ==
    LET tx == item.transform[5]
        ty == item.transform[6]
        fontSize == ISqrt(item.transform[1] * item.transform[1]
                          + item.transform[2] * item.transform[2])
    IN  [text |-> item.str,
         width |-> item.width,
         height |-> fontSize,
         fontSize |-> fontSize,
         xRatio |-> Rat(tx, viewport.width),
         yRatio |-> Rat(viewport.height - ty, viewport.height),
         widthRatio |-> Rat(item.width, viewport.width),
         heightRatio |-> Rat(fontSize, viewport.height),
         viewportWidth |-> viewport.width,
         viewportHeight |-> viewport.height]

\* the advance of a word at font size 1
WordAdvance == Rat(3, 2)

\* ctx.measureText(text).width at the font size fontSize: the advance of the
\* text is proportional to the font size
Measure(text, fontSize) == RatMul(RatMul(Rat(Len(text), 1), WordAdvance), fontSize)

\* variant: the font is scaled by maxWidth / width whenever maxWidth > 0
FitFontSize_Always(width, maxWidth, baseFontSize) ==
    IF maxWidth.n > 0 /\ width.n > 0
    THEN RatMul(baseFontSize, RatDiv(maxWidth, width))
    ELSE baseFontSize

\* if (metrics.width > maxWidth && maxWidth > 0) fontSize = baseFontSize * ratio
FitFontSize(width, maxWidth, baseFontSize) ==
    IF RatLess(maxWidth, width) /\ maxWidth.n > 0
    THEN RatMul(baseFontSize, RatDiv(maxWidth, width))
    ELSE baseFontSize

\* drawAutoFitText: the fillText call and the font it is made with
drawAutoFitText(text, x, y, maxWidth, baseFontSize) ==
    [text |-> text, x |-> x, y |-> y,
     fontSize |-> FitFontSize(Measure(text, baseFontSize), maxWidth, baseFontSize)]

\* variant: the mask is as wide as the width stored at extraction time
MaskRect_StoredWidth(seg, W, H) ==
    [x |-> RatSub(RatMul(seg.xRatio, W), Rat(1, 1)),
     y |-> RatSub(RatMul(seg.yRatio, H),
                  RatMul(RatMul(seg.heightRatio, H), Rat(8, 10))),
     w |-> RatAdd(Rat(seg.width, 1), Rat(2, 1)),
     h |-> RatMul(RatMul(seg.heightRatio, H), Rat(11, 10))]

\* ctx.fillRect(seg.xRatio * canvas.width - 1,
\*   seg.yRatio * canvas.height - (seg.heightRatio * canvas.height * 0.8),
\*   seg.widthRatio * canvas.width + 2, seg.heightRatio * canvas.height * 1.1)
MaskRect(seg, W, H) ==
    [x |-> RatSub(RatMul(seg.xRatio, W), Rat(1, 1)),
     y |-> RatSub(RatMul(seg.yRatio, H),
                  RatMul(RatMul(seg.heightRatio, H), Rat(8, 10))),
     w |-> RatAdd(RatMul(seg.widthRatio, W), Rat(2, 1)),
     h |-> RatMul(RatMul(seg.heightRatio, H), Rat(11, 10))]

\* what is drawn for seg on a canvas of width renderWidth over the image img:
\* canvas.height = renderWidth * (img.height / img.width), the white mask,
\* the text drawn by drawAutoFitText
DrawFrame(seg, img, renderWidth) ==
    LET W == Rat(renderWidth, 1)
        H == RatMul(W, Rat(img.height, img.width))
    IN  [width |-> W, height |-> H,
         mask |-> MaskRect(seg, W, H),
         maxWidth |-> RatMul(seg.widthRatio, W),
         baseFontSize |-> RatMul(Rat(seg.fontSize, 1), RatDiv(W, Rat(seg.viewportWidth, 1))),
         text |-> drawAutoFitText(
                    seg.text, RatMul(seg.xRatio, W), RatMul(seg.yRatio, H),
                    RatMul(seg.widthRatio, W),
                    RatMul(Rat(seg.fontSize, 1), RatDiv(W, Rat(seg.viewportWidth, 1))))]

\* img.onload of the redraw effect, showOriginal off
DrawOverlay ==
    /\ draw.input # <<>> /\ draw.overlay = <<>>
    /\ draw' = [draw EXCEPT
                  !.overlay = <<DrawFrame(draw.input[1].seg, draw.input[1].img,
                                          OverlayWidth)>>]
    /\ UNCHANGED <<context2d, redraw>>
    /\ UNCHANGED <<activeProjectId, batches, passVars, hit, libVars, editVars,
                   exportVars, uiVars, compVars, obsVars>>

\* the loop body of exportSelected after the image has loaded
DrawExport ==
    /\ draw.input # <<>> /\ draw.export = <<>>
    /\ draw' = [draw EXCEPT
                  !.export = <<DrawFrame(draw.input[1].seg, draw.input[1].img,
                                         ExportWidth)>>]
    /\ UNCHANGED <<context2d, redraw>>
    /\ UNCHANGED <<activeProjectId, batches, passVars, hit, libVars, editVars,
                   exportVars, uiVars, compVars, obsVars>>

\* text items: a short and a long text, at two places, of width 0, 10 and 40,
\* at two font sizes
DrawItems ==
    { Item(str, pos[1], pos[2], width, a) :
        str \in { <<"a">>, <<"a", "b", "c", "d">> },
        pos \in { <<20, 70>>, <<0, 100>> },
        width \in {0, 10, 40}, a \in {5, 12} }

\* page.getViewport({ scale: 1.0 }) of the sampled pages
DrawViewports == { [width |-> 100, height |-> 100], [width |-> 600, height |-> 800] }

\* the natural sizes of the page images
DrawImages == { [width |-> 300, height |-> 300], [width |-> 200, height |-> 300],
                [width |-> 400, height |-> 200] }

InitDraw ==
    /\ activeProjectId = "proj1"
    /\ batches = [n \in PageNumbers |-> PassPage(n)]
    /\ store = [pid \in ProjectIds |-> IF pid = "proj1" THEN batches ELSE NoPages]
    /\ LibIdle
    /\ EditIdle
    /\ context2d = TRUE
    /\ redraw = NoRedraw
    /\ draw \in { [NoDraw EXCEPT !.input = <<[item |-> item, viewport |-> vp,
                                               seg |-> SegmentAt(item, vp),
                                               img |-> img]>>] :
                    item \in DrawItems, vp \in DrawViewports, img \in DrawImages }
    /\ UiInit
    /\ PassIdle
    /\ HitIdle

NextDraw == DrawOverlay \/ DrawExport

SpecDraw == InitDraw /\ [][NextDraw]_vars

----------------------------------------------------------------------------
(* App: deleting pages *)

\* the dialog a page deletion opens; onConfirm closes over state.activeProjectId
\* and the page numbers
PagesDialog(pages) ==
    [NoDialog EXCEPT !.isOpen = TRUE, !.kind = "pages", !.id = activeProjectId,
                     !.pages = pages]

\* the trash button of the card of page n
DeletePageButton(n) ==
    /\ activeProjectId # "" /\ ~confirmDialog.isOpen /\ ~ModalVisible
    /\ n \in Range(visiblePageNumbers)
    /\ confirmDialog' = PagesDialog({n})
    /\ UNCHANGED <<dbProjects, dbFiles, projects, pdfInstance, loadOp, deleted>>
    /\ UNCHANGED <<activeProjectId, batches, passVars, hit, drawVars, editVars, exportVars, uiVars, compVars, obsVars>>

\* the "Apagar Lote" button
DeleteBatchButton ==
    /\ activeProjectId # "" /\ ~confirmDialog.isOpen /\ ~ModalVisible
    /\ selectedPages # {}
    /\ LET translatedInSelection == { n \in selectedPages : HasPage(n) }
       IN  IF translatedInSelection = {}
           THEN /\ alertMsg' = "Nenhuma traducao selecionada."
                /\ UNCHANGED confirmDialog
           ELSE /\ confirmDialog' = PagesDialog(translatedInSelection)
                /\ UNCHANGED alertMsg
    /\ UNCHANGED <<dbProjects, dbFiles, projects, pdfInstance, loadOp, deleted>>
    /\ UNCHANGED <<useAI, hasStoredKey, showApiKeyModal, rangeInput, isProcessing,
                   progress, store, pass>>
    /\ UNCHANGED <<activeProjectId, batches, hit, drawVars, editVars, exportVars, uiVars, compVars, obsVars>>

\* db.deletePagesFromProject: one transaction over 'pages'
deletePagesFromProject(projectId, pageNumbers) ==
    store' = [store EXCEPT ![projectId] =
                [n \in PageNumbers |-> IF n \in pageNumbers THEN AbsentPage ELSE @[n]]]

\* bulkDeleteLocalPages(pageNumbers)
bulkDeleteLocalPages(pageNumbers) ==
    /\ batches' = [n \in PageNumbers |->
                     IF n \in pageNumbers THEN AbsentPage ELSE batches[n]]
    /\ selectedPages' = selectedPages \ pageNumbers
    /\ singlePageViewIndex' = IF viewMode = "single" THEN 0 ELSE singlePageViewIndex

\* the transaction of db.deletePagesFromProject completes;
\* bulkDeleteLocalPages; the dialog closes
DeletePagesDone ==
    /\ confirmDialog.running /\ confirmDialog.kind = "pages"
    /\ deletePagesFromProject(confirmDialog.id, confirmDialog.pages)
    /\ bulkDeleteLocalPages(confirmDialog.pages)
    /\ confirmDialog' = NoDialog
    /\ UNCHANGED <<dbProjects, dbFiles, projects, pdfInstance, loadOp, deleted>>
    /\ UNCHANGED <<useAI, hasStoredKey, showApiKeyModal, rangeInput, isProcessing,
                   progress, alertMsg, pass>>
    /\ UNCHANGED <<isEditMode, selectionMode, viewMode, visiblePagesCount,
                   activeEditPageNumber, selectedIndices>>
    /\ UNCHANGED <<activeProjectId, hit, drawVars, editVars, isExporting, exported, obsVars>>
    /\ Rerender

\* the selection across page deletions, translation passes and project switches
NextSelect ==
    \/ ToggleEditMode
    \/ \E p \in PageNumbers : \E indices \in IndexSamples : SelectionReported(indices, p)
    \/ ClearButton
    \/ OpenBatchEditor
    \/ EditorCancel
    \/ \E n \in PageNumbers : DeletePageButton(n)
    \/ DeleteBatchButton
    \/ CancelConfirm
    \/ ConfirmClick
    \/ DeletePagesDone
    \/ ReturnToLibrary
    \/ \E id \in ProjectIds : LoadRead(id)
    \/ LoadApply
    \/ startTranslation
    \/ \E n \in PageNumbers : \E o \in FlowOutcomes(n) : TranslatePage(o)
    \/ PageSaved

SpecSelect == InitEdit /\ [][NextSelect]_vars

----------------------------------------------------------------------------
(* Vocabulary of the properties *)

\* the segment indices of page p
IdxSet(p) == 0..(Len(batches[p].segments) - 1)

SegAt(p, i) == batches[p].segments[i + 1]

\* the box of s lies entirely to one side of both corners (touching counts)
Separated(s, c1, c2) ==
    \/ \A c \in {c1, c2} : s.xRatio + s.widthRatio <= c.x
    \/ \A c \in {c1, c2} : s.xRatio >= c.x
    \/ \A c \in {c1, c2} : s.yRatio <= c.y
    \/ \A c \in {c1, c2} : s.yRatio - s.heightRatio >= c.y

\* the indices of page p whose box overlaps the box spanned by c1 and c2
OverlapSet(p, c1, c2) == { i \in IdxSet(p) : ~Separated(SegAt(p, i), c1, c2) }

\* four times the squared distance from e to the centre of s
\* (xRatio + widthRatio/2, yRatio - heightRatio/2)
CentreDist4(s, e) ==
    (2 * e.x - 2 * s.xRatio - s.widthRatio) * (2 * e.x - 2 * s.xRatio - s.widthRatio)
    + (2 * e.y - 2 * s.yRatio + s.heightRatio) * (2 * e.y - 2 * s.yRatio + s.heightRatio)

\* the indices of page p whose centre is at distance < 0.05 from e
WithinRadius(p, e) ==
    { i \in IdxSet(p) : CentreDist4(SegAt(p, i), e) < 4 * PickRadius * PickRadius }

\* the indices of WithinRadius(p, e) at minimal distance
NearestSet(p, e) ==
    { i \in WithinRadius(p, e) :
        \A j \in WithinRadius(p, e) :
            CentreDist4(SegAt(p, i), e) <= CentreDist4(SegAt(p, j), e) }

SymDiff(A, B) == (A \ B) \cup (B \ A)

\* the squared displacement between two points
Displacement2(a, b) == (a.x - b.x) * (a.x - b.x) + (a.y - b.y) * (a.y - b.y)

NoDuplicates(s) == \A i, j \in 1..Len(s) : i # j => s[i] # s[j]

----------------------------------------------------------------------------
(* C1 *)

\* C1 as stated: in single mode with edit mode on, two consecutive pointer-ups
\* on one page that resolve to the same segment leave the selected index set
\* equal to what it was before the first of them, for every page and every
\* starting selection.
C1_AsStated ==
    (last.kind = "pick" /\ last.second /\ selectionMode = "single")
        => Range(selectedIndices) = last.origSel

\* C1 (amended): in single mode with edit mode on, two consecutive pointer-ups
\* on one page that resolve to the same segment leave the selected index set
\* equal to what it was before the first of them, provided the page was the
\* active edit page before the first pointer-up or nothing was selected.
C1_ToggleTwiceRestores ==
    (/\ last.kind = "pick" /\ last.second /\ selectionMode = "single"
     /\ (last.origActive = last.page \/ last.origSel = {}))
        => Range(selectedIndices) = last.origSel

\* a second pick of the same segment on the active page restored a
\* non-empty selection
C1_Witness ==
    /\ last.kind = "pick" /\ last.second /\ selectionMode = "single"
    /\ isEditMode
    /\ last.origActive = last.page
    /\ last.origSel # {}
    /\ Range(selectedIndices) = last.origSel

----------------------------------------------------------------------------
(* C2 *)

\* C2 as stated: in points mode, when a pointer-up on page P has stored P's
\* anchor and the next pointer-up lands on a different page Q, the pointer-up
\* on Q only sets Q's own anchor, fires no selection callback and leaves the
\* selection unchanged.
C2_AsStated ==
    [][\A q \in PageNumbers, e \in Pts :
         (last.kind = "anchor" /\ last.page # q /\ handleMouseUp(q, e))
            => /\ pointAnchor'[q] = e
               /\ last'.kind = "anchor"
               /\ UNCHANGED <<selectedIndices, activeEditPageNumber>>]_vars

\* C2 (amended): a points-mode pointer-up on page Q never completes a
\* rectangle from the anchor of another page: when Q has no pending anchor of
\* its own it only sets Q's anchor (no callback, selection and the other
\* pages' anchors unchanged); when Q already has a pending anchor it completes
\* Q's own rectangle, spanned by Q's anchor and the release point.
C2_AnchorPerPage ==
    [][\A q \in PageNumbers, e \in Pts :
         (isEditMode /\ selectionMode = "points" /\ handleMouseUp(q, e))
            => IF pointAnchor[q] = Null
               THEN /\ pointAnchor' = [pointAnchor EXCEPT ![q] = e]
                    /\ last'.kind = "anchor"
                    /\ UNCHANGED <<selectedIndices, activeEditPageNumber>>
               ELSE /\ last'.kind = "points"
                    /\ activeEditPageNumber' = q
                    /\ Range(selectedIndices')
                         = Range(PropSelectedIndices(q))
                           \cup OverlapSet(q, pointAnchor[q], e)]_vars

\* page 2 got its own anchor while the anchor of page 1 was pending, and
\* nothing was selected by that
C2_Witness ==
    /\ selectionMode = "points"
    /\ last.kind = "anchor" /\ last.page = 2
    /\ pointAnchor[1] # Null /\ pointAnchor[2] # Null
    /\ pointAnchor[1] # pointAnchor[2]
    /\ selectedIndices = <<>>

----------------------------------------------------------------------------
(* C3 *)

\* the indices of page p that a pointer-up at e can report
Reported(p, e) ==
    OverlapSet(p, dragStart[p], e) \cup OverlapSet(p, pointAnchor[p], e)
        \cup WithinRadius(p, e)

\* C3: a gesture that reports a result for page Q makes Q the active edit
\* page, and the new selection holds only indices reported by this gesture
\* plus, when Q already was the active page, indices that were selected on Q:
\* indices selected on another page are never carried over.  Between reports
\* the selection only changes by being cleared.
C3_NoCrossPageMerge ==
    [][/\ \A q \in PageNumbers, e \in Pts :
            (last'.kind \in {"pick", "box", "points"} /\ handleMouseUp(q, e))
               => /\ activeEditPageNumber' = q
                  /\ Range(selectedIndices') \subseteq
                       (IF activeEditPageNumber = q
                        THEN Range(selectedIndices) ELSE {}) \cup Reported(q, e)
                  /\ Range(selectedIndices') \subseteq IdxSet(q)
       /\ (last'.kind \notin {"pick", "box", "points"}
             /\ <<selectedIndices, activeEditPageNumber>>'
                  # <<selectedIndices, activeEditPageNumber>>)
            => (selectedIndices' = <<>> /\ activeEditPageNumber' = NoPage)]_vars

\* a pick on a page other than the active one replaced a non-empty selection
C3_Witness ==
    /\ last.kind = "pick"
    /\ last.prevActive # NoPage /\ last.prevActive # activeEditPageNumber
    /\ Cardinality(last.prevSel) >= 2
    /\ selectedIndices = <<last.best>>

----------------------------------------------------------------------------
(* C4 *)

----------------------------------------------------------------------------
(* C5, C6 *)

\* C5 as stated: in area mode, a completed drag on the active page (a
\* pointer-up displaced from the recorded drag start by more than the
\* dead-zone) yields the previous selection united with every segment whose
\* box overlaps the drag box.
C5_AsStated ==
    [][\A p \in PageNumbers, e \in Pts :
         (/\ isEditMode /\ selectionMode = "area"
          /\ activeEditPageNumber = p
          /\ dragStart[p] # Null
          /\ Displacement2(dragStart[p], e) > DeadZone * DeadZone
          /\ handleMouseUp(p, e))
            => Range(selectedIndices')
                 = Range(selectedIndices) \cup OverlapSet(p, dragStart[p], e)]_vars

\* C6 as stated: in area mode, a pointer-up performs box selection exactly
\* when its displacement from the recorded drag start exceeds the dead-zone,
\* in every drag direction; otherwise it falls back to nearest-point picking.
C6_AsStated ==
    [][\A p \in PageNumbers, e \in Pts :
         (/\ isEditMode /\ selectionMode = "area"
          /\ dragStart[p] # Null
          /\ handleMouseUp(p, e))
            => (last'.kind = "box"
                  <=> Displacement2(dragStart[p], e) > DeadZone * DeadZone)]_vars

----------------------------------------------------------------------------
(* C7 *)

\* C7 as stated: a single-mode pointer-up changes the membership of at most
\* one index of the selected index set, the segment whose centre is nearest
\* to the release point among those at distance < 0.05; when no segment is
\* within 0.05 no callback fires and selection and active page are unchanged.
C7_AsStated ==
    [][\A p \in PageNumbers, e \in Pts :
         (isEditMode /\ selectionMode = "single" /\ handleMouseUp(p, e))
            => IF WithinRadius(p, e) = {}
               THEN /\ last'.kind = "none"
                    /\ UNCHANGED <<selectedIndices, activeEditPageNumber>>
               ELSE \E i \in NearestSet(p, e) :
                       SymDiff(Range(selectedIndices), Range(selectedIndices'))
                         \subseteq {i}]_vars

\* C7 (amended): a single-mode pointer-up on page p toggles exactly one index,
\* the segment whose centre is nearest to the release point among those at
\* distance < 0.05, in the selection of page p (the selected index set when p
\* is the active edit page, the empty set otherwise) and makes p the active
\* edit page; when no segment is within 0.05 no callback fires and selection
\* and active page are unchanged.
C7_SinglePickFrame ==
    [][\A p \in PageNumbers, e \in Pts :
         (isEditMode /\ selectionMode = "single" /\ handleMouseUp(p, e))
            => IF WithinRadius(p, e) = {}
               THEN /\ last'.kind = "none"
                    /\ UNCHANGED <<selectedIndices, activeEditPageNumber>>
               ELSE /\ \E i \in NearestSet(p, e) :
                         SymDiff(Range(PropSelectedIndices(p)),
                                 Range(selectedIndices')) = {i}
                    /\ activeEditPageNumber' = p
                    /\ last'.kind = "pick"]_vars

\* a single-mode pick toggled one index of a selection of the active page
\* that held other indices
C7_Witness ==
    /\ selectionMode = "single"
    /\ last.kind = "pick"
    /\ last.prevActive = last.page
    /\ Cardinality(last.prevSel) >= 2
    /\ SymDiff(last.prevSel, Range(selectedIndices)) = {last.best}

----------------------------------------------------------------------------
(* C9 *)

\* C9: after any sequence of single, area and points gestures, clears and
\* mode switches, the selected index list never holds an index twice.
C9_SelectionIsSet == NoDuplicates(selectedIndices)

\* a union gesture ran on a page that already had a selection, and the list
\* holds every index of the page
C9_Witness ==
    /\ last.kind \in {"box", "points"}
    /\ Len(selectedIndices) = 3
    /\ selectedIndices[1] # 0

----------------------------------------------------------------------------
(* C8: the hit test of the points and area branches *)

\* the segment and corners of the worked example
ExampleSeg == Seg(20, 30, 10, 5)

\* C8: for every segment and every pair of corners, the points and the area
\* hit test include the segment exactly when its box
\* [xRatio, xRatio+widthRatio] x [yRatio-heightRatio, yRatio] overlaps the box
\* spanned by the corners; the segment (0.2, 0.3, 0.1, 0.05) is included by
\* (0.15,0.2)-(0.35,0.3) and excluded by (0.5,0.5)-(0.6,0.6); the result is
\* the same whichever corner is given first.
C8_HitTestIsOverlap ==
    hit.done =>
      /\ (hit.points = <<0>>) <=> ~Separated(hit.seg, hit.a, hit.b)
      /\ (hit.area = <<0>>) <=> ~Separated(hit.seg, hit.a, hit.b)
      /\ hit.points \in {<<>>, <<0>>} /\ hit.area \in {<<>>, <<0>>}
      /\ (hit.seg = ExampleSeg /\ {hit.a, hit.b} = {Pt(15, 20), Pt(35, 30)})
            => hit.points = <<0>> /\ hit.area = <<0>>
      /\ (hit.seg = ExampleSeg /\ {hit.a, hit.b} = {Pt(50, 50), Pt(60, 60)})
            => hit.points = <<>> /\ hit.area = <<>>
      /\ hit.points = PointsReduce(<<hit.seg>>, 0, hit.b, hit.a)
      /\ hit.area = AreaReduce(<<hit.seg>>, 0, hit.b, hit.a)

\* the example segment is included by its box given from the far corner first
C8_Witness ==
    /\ hit.done
    /\ hit.seg = ExampleSeg
    /\ hit.a = Pt(35, 30) /\ hit.b = Pt(15, 20)
    /\ hit.points = <<0>> /\ hit.area = <<0>>

----------------------------------------------------------------------------
(* C10: the page a translation pass builds *)

\* the texts extractTextSegments yields for page n
ExtractedTexts(n) ==
    LET segs == extractTextSegments(n) IN [i \in 1..Len(segs) |-> segs[i].text]

\* the texts of the page stored for page n in the next state
StoredTexts(n) == [i \in 1..Len(store'[pass.projectId][n].segments) |-> store'[pass.projectId][n].segments[i].text]

\* C10 as stated: the stored page has n segments and segment i carries the
\* response's i-th string whenever the response has an entry at i, else the
\* extracted text.
C10_AsStated ==
    [][PageSaved =>
         LET n == pass.n
             texts == ExtractedTexts(n)
             resp == pass.translatedTexts
         IN  /\ Len(store'[pass.projectId][n].segments) = Len(texts)
             /\ \A i \in 1..Len(texts) :
                  StoredTexts(n)[i] = IF i <= Len(resp) THEN resp[i] ELSE texts[i]]_vars

\* C10: when a pass builds a page from n extracted texts and a backend answer
\* of any length, the stored page has exactly n segments in extraction order
\* (original text and geometry of the i-th extracted segment), and segment i
\* carries the answer's i-th string when the answer has a non-empty entry at
\* i, otherwise the extracted text (a missing entry and an empty string both
\* fall back); an answer of any length is never an error; [a,b,c] answered
\* with [x,y] is stored as [x,y,c].
C10_FallbackToOriginal ==
    [][/\ PageSaved =>
            LET n == pass.n
                segs == extractTextSegments(n)
                texts == ExtractedTexts(n)
                resp == pass.translatedTexts
                stored == store'[pass.projectId][n].segments
            IN  /\ store'[pass.projectId][n].pageNumber = n
                /\ batches'[n] = store'[pass.projectId][n]
                /\ Len(stored) = Len(texts)
                /\ \A i \in 1..Len(texts) :
                     /\ stored[i].text =
                          IF i <= Len(resp) /\ resp[i] # <<>> THEN resp[i] ELSE texts[i]
                     /\ stored[i].originalText = texts[i]
                     /\ stored[i].xRatio = segs[i].xRatio
                     /\ stored[i].yRatio = segs[i].yRatio
                     /\ stored[i].widthRatio = segs[i].widthRatio
                     /\ stored[i].heightRatio = segs[i].heightRatio
                /\ (texts = << <<"a">>, <<"b">>, <<"c">> >>
                      /\ resp = << <<"x">>, <<"y">> >>)
                     => StoredTexts(n) = << <<"x">>, <<"y">>, <<"c">> >>
       /\ (pass.pc = "page" /\ pass' # pass /\ pass'.outcome.kind = "list")
            => pass'.pc = "saving" /\ alertMsg' = alertMsg /\ isProcessing']_vars

\* page 1 ([a,b,c]) answered with [x,y] has been stored as [x,y,c]
C10_Witness ==
    /\ pass.pc = "page" /\ pass.n = 2
    /\ pass.translatedTexts = << <<"x">>, <<"y">> >>
    /\ store["proj1"][1].pageNumber = 1
    /\ [i \in 1..Len(store["proj1"][1].segments) |-> store["proj1"][1].segments[i].text]
         = << <<"x">>, <<"y">>, <<"c">> >>

----------------------------------------------------------------------------
(* C11: cascading delete *)

\* C11 as stated: once deleteProject(id) has completed, the project record,
\* the file blob and every page record of id are absent from the store in
\* every later state, whatever else runs before or after the deletion (a
\* translation pass started for id before it included).
C11_AsStated ==
    \A id \in deleted :
        /\ id \notin dbProjects
        /\ id \notin dbFiles
        /\ store[id] = NoPages


\* the page numbers a, a + 1, ..., b in ascending order
Ascending(a, b) == [i \in 1..(b - a + 1) |-> a + i - 1]

\* C12: a pass started with the range inputs (start, end) takes the pages
\* max(1, start) .. min(numPages, end) in ascending order, one at a time: when
\* page n is requested from the PDF, n lies in 1..numPages and every earlier
\* page of the pass has been saved to the store and put in memory; a pass that
\* ends without an error has saved exactly that range.
C12_AscendingOneAtATime ==
    [][ /\ (pass.pc = "idle" /\ pass'.pc = "page") =>
              /\ pass'.n = Max(1, rangeInput.start)
              /\ pass'.start = pass'.n
              /\ pass'.end = Min(NumPages, rangeInput.end)
              /\ pass'.requested = <<>> /\ pass'.saved = <<>>
        /\ (pass.pc = "page" /\ pass' # pass) =>
              /\ pass.n \in 1..NumPages
              /\ pass.n \in pass.start..pass.end
              /\ pass.requested = Ascending(pass.start, pass.n - 1)
              /\ pass.saved = pass.requested
              /\ \A m \in pass.start..(pass.n - 1) :
                    /\ store[pass.projectId][m].pageNumber = m
                    /\ batches[m].pageNumber = m
        /\ (pass.pc = "page" /\ pass'.pc = "saving") =>
              pass'.requested = Ascending(pass.start, pass.n)
        /\ (pass.pc = "saving" /\ pass'.pc = "idle" /\ pass'.outcome = NoOutcome) =>
              /\ Append(pass.saved, pass.n) = Ascending(pass.start, pass.end)
              /\ \A m \in pass.start..pass.end :
                    /\ store'[pass.projectId][m].pageNumber = m
                    /\ batches'[m].pageNumber = m
      ]_vars

\* the second page of a pass over pages 1..2 is being translated, page 1 saved
C12_Witness ==
    /\ pass.pc = "saving"
    /\ pass.requested = <<1, 2>>
    /\ pass.saved = <<1>>
    /\ store[pass.projectId][1].pageNumber = 1


\* the step in which the catch block of a pass runs
Aborts == pass.pc # "idle" /\ pass'.pc = "idle" /\ pass'.outcome # NoOutcome

BackendFailed ==
    /\ pass.pc = "page" /\ pass' # pass
    /\ extractTextSegments(pass.n) # <<>>
    /\ pass'.outcome.kind \in {"fail", "nodata"}

\* C14 as stated: when the backend call for page k fails, with either backend,
\* the pass is aborted at page k: no record for page k goes to the store, no
\* later page is processed, and a message is shown.
C14_AsStated ==
    [][ BackendFailed =>
          /\ pass'.pc = "idle"
          /\ alertMsg' # ""
          /\ ~isProcessing'
      ]_vars


\* no translation pass, loadProject or confirmed deletion is between two of
\* its awaits
NothingInFlight ==
    pass.pc = "idle" /\ loadOp.pc = "idle" /\ ~confirmDialog.running

\* C15 as stated: whenever no translate, save or delete operation is in
\* flight, the pages in memory of the open project are exactly the page
\* records stored for that project.
C15_AsStated ==
    (NothingInFlight /\ activeProjectId # "") => batches = store[activeProjectId]


\* C16 as stated: while a translation pass is in flight, no save of the batch
\* editor writes a page record that the pass will still write.
C16_AsStated ==
    ~ /\ pass.pc # "idle"
      /\ saveOp.pc = "saving"
      /\ saveOp.page.pageNumber \in pass.n..pass.end


\* the originalText of the segments of a page, in order
OriginalTexts(page) == [j \in 1..Len(page.segments) |-> page.segments[j].originalText]

\* the step in which the pass puts the page it built for n in the store and in memory
PassWrites(n) == pass.pc = "saving" /\ pass.n = n /\ pass' # pass

\* C17: the originalText of every segment of a page is the extracted string
\* the translation pass gave it when it created the page, and no edit,
\* restore, save or cancel of the batch editor changes it: a step that changes
\* a page record keeps every originalText unless it is the pass writing the page.
C17_OriginalTextKept ==
    [][ \A n \in PageNumbers :
          /\ (batches[n].pageNumber # NoPage /\ batches'[n] # batches[n]) =>
                IF PassWrites(n)
                THEN OriginalTexts(batches'[n]) = ExtractedTexts(n)
                ELSE OriginalTexts(batches'[n]) = OriginalTexts(batches[n])
          /\ \A pid \in ProjectIds :
               (store[pid][n].pageNumber # NoPage /\ store'[pid][n] # store[pid][n]) =>
                  IF PassWrites(n)
                  THEN OriginalTexts(store'[pid][n]) = ExtractedTexts(n)
                  ELSE OriginalTexts(store'[pid][n]) = OriginalTexts(store[pid][n])
      ]_vars

\* an edited text was saved: the text of the first segment of page 1 changed,
\* its originalText did not
C17_Witness ==
    /\ saveOp.runs > 0 /\ saveOp.pc = "idle"
    /\ store["proj1"][1].segments[1].text = <<"e">>
    /\ batches[1].segments[1].text = <<"e">>
    /\ store["proj1"][1].segments[1].originalText = ExtractedTexts(1)[1]
    /\ batches[1].segments[1].originalText = ExtractedTexts(1)[1]


\* the step in which a save of the editor completes
SaveCompletes == saveOp.pc = "saving" /\ saveOp'.pc = "idle"

\* C18: a save of the batch editor replaces the page record as a whole, in the
\* store and in memory, by a page with the same page number, image and number
\* of segments as the page the handler read; a segment whose index is in the
\* working copy gets the edited text and keeps every other field, every other
\* segment is identical; no other page changes; afterwards the editor is
\* closed, the selection is empty and activeEditPageNumber is null.
C18_SaveReplacesTexts ==
    [][ SaveCompletes =>
          LET b == saveOp.base
              n == b.pageNumber
              np == store'[saveOp.projectId][n]
          IN  /\ batches'[n] = np
              /\ np.pageNumber = n /\ np.imageData = b.imageData
              /\ Len(np.segments) = Len(b.segments)
              /\ \A j \in 1..Len(b.segments) :
                    /\ [np.segments[j] EXCEPT !.text = <<>>]
                         = [b.segments[j] EXCEPT !.text = <<>>]
                    /\ \A k \in 1..Len(saveOp.items) :
                          saveOp.items[k].index = j - 1
                             => np.segments[j].text = saveOp.items[k].text
                    /\ (\A k \in 1..Len(saveOp.items) : saveOp.items[k].index # j - 1)
                          => np.segments[j] = b.segments[j]
              /\ \A m \in PageNumbers \ {n} :
                    batches'[m] = batches[m] /\ store'[saveOp.projectId][m] = store[saveOp.projectId][m]
              /\ batchEditingData' = NoEditor
              /\ selectedIndices' = <<>>
              /\ activeEditPageNumber' = NoPage
      ]_vars

\* segments 1 and 0 of page 1 were opened, "e" typed for segment 1 and the
\* empty text for segment 0, and the save has completed
C18_Witness ==
    /\ saveOp.runs > 0 /\ saveOp.pc = "idle"
    /\ ~batchEditingData.open /\ selectedIndices = <<>> /\ activeEditPageNumber = NoPage
    /\ store["proj1"][1].segments[2].text = <<"e">>
    /\ store["proj1"][1].segments[1].text = <<>>
    /\ store["proj1"][1].segments[3] = PassPage(1).segments[3]
    /\ batches[1] = store["proj1"][1]


\* C19: while the editor is open, a step that changes the working copy and is
\* not the completion of a save (typing, a select toggle, a restore, Cancel or
\* the X button) changes neither a page record in memory or in the store nor
\* the selection; a page record changes only when a pressed Save completes (or
\* a running translation pass writes it); and until then the selected indices
\* and activeEditPageNumber are the ones the editor was opened with and the
\* texts of the opened segments are the ones the working copy started from.
C19_EditsStayInWorkingCopy ==
    /\ [][ /\ (ModalVisible /\ batchEditingData' # batchEditingData /\ ~SaveCompletes) =>
                UNCHANGED <<batches, store, selectedIndices, activeEditPageNumber, saveOp>>
           /\ (ModalVisible /\ (batches' # batches \/ store' # store)) =>
                (SaveCompletes \/ \E n \in PageNumbers : PassWrites(n))
           /\ (ModalVisible /\ ~SaveCompletes) =>
                /\ selectedIndices' = batchEditingData.sel
                /\ activeEditPageNumber' = batchEditingData.active
         ]_vars
    /\ [](ModalVisible =>
            \/ pass.runs > 0 \/ pass.pc # "idle"
            \/ \A k \in 1..Len(batchEditingData.items) :
                 LET item == batchEditingData.items[k]
                     n == batchEditingData.active
                 IN  /\ batches[n].segments[item.index + 1].text = item.initialTranslation
                     /\ store[activeProjectId][n] = batches[n])

\* the editor is open on segments 1 and 0 of page 1: "e" was typed for the
\* first item and it was unselected, the second was restored to its original;
\* the page is still the stored one
C19_Witness ==
    /\ ModalVisible /\ batchEditingData.active = 1
    /\ Len(batchEditingData.items) = 2
    /\ batchEditingData.items[1].text = <<"e">> /\ ~batchEditingData.items[1].selected
    /\ batchEditingData.items[2].text = batchEditingData.items[2].original
    /\ batchEditingData.items[2].text # batchEditingData.items[2].initialTranslation
    /\ batches[1] = PassPage(1) /\ store["proj1"][1] = PassPage(1)
    /\ selectedIndices = <<1, 0>>


\* C20: a jump to a number that has no translated page leaves viewMode and
\* singlePageViewIndex as they are and shows a message; exportSelected with no
\* translated page among the selected ones shows a message, saves no document
\* and leaves isExporting false; neither changes a page or the selection.
C20_NotFoundIsNoOp ==
    [][ /\ (last'.kind = "jump" /\ ~(\E n \in PageNumbers : HasPage(n) /\ n = last'.page)) =>
              /\ viewMode' = viewMode /\ singlePageViewIndex' = singlePageViewIndex
              /\ alertMsg' = "Pagina nao encontrada ou ainda nao traduzida."
              /\ UNCHANGED <<batches, store, selectedPages, isExporting, exported>>
        /\ (last'.kind = "export" /\ selectedPages \cap { n \in PageNumbers : HasPage(n) } = {}) =>
              /\ alertMsg' = "Apenas paginas traduzidas podem ser exportadas."
              /\ ~isExporting' /\ isExporting' = isExporting
              /\ exported' = exported
              /\ UNCHANGED <<batches, store, selectedPages, viewMode, singlePageViewIndex>>
      ]_vars

\* in the focus view on the second page, a jump to the untranslated page 3 was
\* refused
C20_Witness ==
    /\ last.kind = "jump" /\ last.page = NumPages + 1
    /\ viewMode = "single" /\ singlePageViewIndex = 1
    /\ alertMsg = "Pagina nao encontrada ou ainda nao traduzida."


\* C21: a page whose rasterization found no drawing context is not recorded
\* and listed as a translated page: every page of the in-memory list and of
\* the store carries an image.
C21_AsStated ==
    \A n \in PageNumbers :
        /\ HasPage(n) => batches[n].imageData # ""
        /\ \A pid \in ProjectIds :
              store[pid][n].pageNumber # NoPage => store[pid][n].imageData # ""

\* C22: once every pending image load of the observed canvas has completed
\* and its effect has run for the latest render, the frame on the canvas is
\* the one computed from the latest state.
C22_AsStated ==
    (/\ redraw.page # NoPage
     /\ redraw.pending = <<>>
     /\ redraw.deps = <<Frame(redraw.page)>>)
    => redraw.painted = <<Frame(redraw.page)>>

\* the frames drawn so far
Frames == Range(draw.overlay) \cup Range(draw.export)

\* the width of the text of frame f as it is drawn
RenderedWidth(f) == Measure(f.text.text, f.text.fontSize)

InCanvasRatio(a, b) == RatMul(a, Rat(OverlayWidth, 1)) = RatMul(b, Rat(ExportWidth, 1))

\* C24 as stated: on both canvases the mask and the text anchor are at
\* (xRatio x canvas width, yRatio x canvas height), the font is scaled by
\* canvas width / viewportWidth, and the positions drawn for one segment on
\* the two canvases are in the ratio of the canvas sizes.
C24_AsStated ==
    /\ \A f \in Frames :
          LET seg == draw.input[1].seg
          IN  /\ f.text.x = RatMul(seg.xRatio, f.width)
              /\ f.text.y = RatMul(seg.yRatio, f.height)
              /\ f.mask.x = RatMul(seg.xRatio, f.width)
              /\ f.mask.y = RatMul(seg.yRatio, f.height)
    /\ (draw.overlay # <<>> /\ draw.export # <<>>) =>
          LET o == draw.overlay[1]
              e == draw.export[1]
          IN  /\ InCanvasRatio(e.text.x, o.text.x) /\ InCanvasRatio(e.text.y, o.text.y)
              /\ InCanvasRatio(e.mask.x, o.mask.x) /\ InCanvasRatio(e.mask.y, o.mask.y)
              /\ InCanvasRatio(e.baseFontSize, o.baseFontSize)

\* C24 amended: on both canvases the text anchor is the item's position of
\* the PDF page scaled to the current canvas, (xRatio x canvas width,
\* yRatio x canvas height); the nominal font is fontSize x canvas width /
\* viewportWidth; the mask is the item's box scaled to the current canvas
\* and padded by a fixed pixel: it starts 1 px left of the anchor and
\* 0.8 x the scaled height above it and measures (scaled width + 2 px) by
\* 1.1 x the scaled height.  Anchor, nominal font, mask top and mask height
\* on the two canvases are in the ratio of the canvas sizes, mask left and
\* mask width are so without the padding.  The width and height stored at
\* extraction time enter only through the ratios.
C24_PlacementFromRatios ==
    /\ \A f \in Frames :
          LET item == draw.input[1].item
              vp == draw.input[1].viewport
              sx == RatDiv(f.width, Rat(vp.width, 1))
              sy == RatDiv(f.height, Rat(vp.height, 1))
              a == item.transform[1]
          IN  /\ f.text.x = RatMul(Rat(item.transform[5], 1), sx)
              /\ f.text.y = RatMul(Rat(vp.height - item.transform[6], 1), sy)
              /\ f.baseFontSize = RatMul(Rat(a, 1), sx)
              /\ f.mask.x = RatSub(f.text.x, Rat(1, 1))
              /\ RatMul(RatSub(f.text.y, f.mask.y), Rat(10, 1))
                    = RatMul(RatMul(Rat(a, 1), sy), Rat(8, 1))
              /\ f.mask.w = RatAdd(RatMul(Rat(item.width, 1), sx), Rat(2, 1))
              /\ RatMul(f.mask.h, Rat(10, 1)) = RatMul(RatMul(Rat(a, 1), sy), Rat(11, 1))
              /\ f.maxWidth = RatMul(Rat(item.width, 1), sx)
              /\ f.height = RatMul(f.width, Rat(draw.input[1].img.height,
                                                draw.input[1].img.width))
    /\ (draw.overlay # <<>> /\ draw.export # <<>>) =>
          LET o == draw.overlay[1]
              e == draw.export[1]
          IN  /\ o.width = Rat(1200, 1) /\ e.width = Rat(1600, 1)
              /\ InCanvasRatio(e.text.x, o.text.x) /\ InCanvasRatio(e.text.y, o.text.y)
              /\ InCanvasRatio(e.baseFontSize, o.baseFontSize)
              /\ InCanvasRatio(e.mask.y, o.mask.y) /\ InCanvasRatio(e.mask.h, o.mask.h)
              /\ InCanvasRatio(RatAdd(e.mask.x, Rat(1, 1)), RatAdd(o.mask.x, Rat(1, 1)))
              /\ InCanvasRatio(RatSub(e.mask.w, Rat(2, 1)), RatSub(o.mask.w, Rat(2, 1)))

\* the item at (20, 70) of width 10 and font size 12 on a page of 600 x 800
\* over an image of 200 x 300, drawn on both canvases
C24_Witness ==
    /\ draw.overlay # <<>> /\ draw.export # <<>>
    /\ draw.input[1].item = Item(<<"a">>, 20, 70, 10, 12)
    /\ draw.input[1].viewport = [width |-> 600, height |-> 800]
    /\ draw.input[1].img = [width |-> 200, height |-> 300]
    /\ draw.overlay[1].text.x = Rat(40, 1) /\ draw.export[1].text.x = Rat(160, 3)
    /\ draw.overlay[1].mask.x = Rat(39, 1) /\ draw.export[1].mask.x = Rat(157, 3)
    /\ draw.overlay[1].mask.w = Rat(22, 1) /\ draw.export[1].mask.w = Rat(86, 3)
    /\ draw.overlay[1].baseFontSize = Rat(24, 1) /\ draw.export[1].baseFontSize = Rat(32, 1)

\* C30: a started export ends: isExporting returns to false, and a document
\* that is saved holds the selected translated pages in ascending order.
C30_AsStated ==
    /\ (isExporting ~> ~isExporting)
    /\ [](\A d \in exported.docs :
            /\ d # <<>>
            /\ \A k \in 1..(Len(d) - 1) : d[k] < d[k + 1])

----------------------------------------------------------------------------
(* C25: translateFree keeps the shape of its input *)

\* the free backend was called for page pass.n and the call has ended
FreeCallEnds ==
    /\ pass.pc = "page" /\ ~pass.useAI /\ pass' # pass
    /\ pass'.outcome.kind \in {"fail", "nodata", "list"}

\* C25: translateFree never raises to its caller: whether the request fails,
\* the body lacks the data, or the answer splits into any number of parts
\* (none, fewer than the inputs, as many, empty ones), the pass goes on to
\* save the page and no message is shown; the list it returns has the length
\* of its input; a pure-code input stands unchanged at its own position; on a
\* failed request or a body without data the input list is returned as it
\* is; a position whose part is missing or empty holds its input; any other
\* position holds the part of the same position with the tokens of the input
\* of that position put back.
C25_FreeKeepsShape ==
    [][ FreeCallEnds =>
          LET texts == ExtractedTexts(pass.n)
              out == pass'.translatedTexts
              parts == pass'.outcome.list
          IN  /\ pass'.pc = "saving" /\ alertMsg' = alertMsg /\ isProcessing'
              /\ Len(out) = Len(texts)
              /\ pass'.outcome.kind # "list" => out = texts
              /\ \A i \in 1..Len(texts) :
                   /\ isPureCode(texts[i]) => out[i] = texts[i]
                   /\ (i > Len(parts) \/ parts[i] = <<>>) => out[i] = texts[i]
                   /\ (~isPureCode(texts[i]) /\ i <= Len(parts) /\ parts[i] # <<>>)
                        => out[i] = RestoreTokens(parts[i], Vault(texts[i]).tokens)
      ]_vars

\* page 2, whose second text is pure code, was answered by the free backend
\* with a single part: the list kept both positions and the code
C25_Witness ==
    /\ pass.pc = "saving" /\ ~pass.useAI /\ pass.n = 2
    /\ pass.outcome = [kind |-> "list", list |-> << <<"x">> >>]
    /\ Len(ExtractedTexts(2)) = 2 /\ isPureCode(ExtractedTexts(2)[2])
    /\ pass.translatedTexts = << <<"x">>, ExtractedTexts(2)[2] >>

----------------------------------------------------------------------------
(* C26: the selection names an existing page and valid indices *)

\* C26 as stated: whenever some index is selected, activeEditPageNumber
\* names a page of the in-memory page list and every selected index is an
\* index into the segment list of that page.
C26_AsStated ==
    selectedIndices # <<>> =>
        /\ activeEditPageNumber # NoPage
        /\ HasPage(activeEditPageNumber)
        /\ \A k \in 1..Len(selectedIndices) :
             selectedIndices[k] \in 0..(Len(batches[activeEditPageNumber].segments) - 1)

----------------------------------------------------------------------------
(* C27: the restore buttons of the batch editor *)

\* the segment of the active page that item k of the working copy w stands for
ItemSegment(w, k) == batches[activeEditPageNumber].segments[w.items[k].index + 1]

\* every item of the working copy items carries the text it was opened with
AllRestored(items) == \A k \in 1..Len(items) : items[k].text = items[k].initialTranslation

\* C27: when the editor opens, every item records the text of its segment
\* (initialTranslation) and the segment's original text (the text itself when
\* the segment has no original); while the editor stays open no step changes
\* what an item records or the segment texts of the page; "restore original"
\* sets the text of every marked item to its original and "restore
\* translation" sets it to the recorded text, both leaving every unmarked
\* item as it is; and a Save pressed when every item carries its recorded
\* text (after any edits and a restore of all items) completes with every
\* segment of the page, in memory and in the store, equal to what it was
\* when the editor was opened.
C27_RestoreRoundTrip ==
    /\ [][ /\ (~batchEditingData.open /\ batchEditingData'.open) =>
                \A k \in 1..Len(batchEditingData'.items) :
                   LET seg == ItemSegment(batchEditingData', k)
                       item == batchEditingData'.items[k]
                   IN  /\ item.text = seg.text /\ item.initialTranslation = seg.text
                       /\ item.original = IF seg.originalText # <<>> THEN seg.originalText
                                          ELSE seg.text
           /\ (batchEditingData.open /\ batchEditingData'.open) =>
                /\ Len(batchEditingData'.items) = Len(batchEditingData.items)
                /\ \A k \in 1..Len(batchEditingData.items) :
                      LET a == batchEditingData.items[k]
                          b == batchEditingData'.items[k]
                      IN  /\ b.index = a.index /\ b.original = a.original
                          /\ b.initialTranslation = a.initialTranslation
                /\ batches' = batches /\ store' = store
           /\ EditorRestoreOriginal =>
                \A k \in 1..Len(batchEditingData.items) :
                   LET a == batchEditingData.items[k]
                   IN  batchEditingData'.items[k] =
                         IF a.selected THEN [a EXCEPT !.text = a.original] ELSE a
           /\ EditorRestoreTranslation =>
                \A k \in 1..Len(batchEditingData.items) :
                   LET a == batchEditingData.items[k]
                   IN  batchEditingData'.items[k] =
                         IF a.selected THEN [a EXCEPT !.text = a.initialTranslation] ELSE a
           /\ (SaveCompletes /\ AllRestored(saveOp.items)) =>
                LET n == saveOp.base.pageNumber
                IN  /\ batches'[n] = batches[n]
                    /\ store'[saveOp.projectId][n] = store[saveOp.projectId][n]
                    /\ batches'[n] = saveOp.base
         ]_vars
    /\ [](ModalVisible =>
            \A k \in 1..Len(batchEditingData.items) :
               batchEditingData.items[k].initialTranslation
                 = ItemSegment(batchEditingData, k).text)

\* segments 1 and 0 of a page are in the editor: the first item is marked and
\* carries its original text again, which is neither the text it was opened
\* with nor a typed one; the second is unmarked and keeps the typed text
C27_Witness ==
    /\ ModalVisible /\ Len(batchEditingData.items) = 2
    /\ LET a == batchEditingData.items[1]
           b == batchEditingData.items[2]
       IN  /\ a.selected /\ a.text = a.original /\ a.text # a.initialTranslation
           /\ a.text \notin TypedTexts
           /\ ~b.selected /\ b.text = <<"e">> /\ b.text # b.initialTranslation

----------------------------------------------------------------------------
(* C28: no selection while edit mode is off *)

\* a pointer-down or a pointer-up on the canvas of some page
PointerDownOrUp ==
    \/ \E p \in PageNumbers, pt \in DownPts : handleMouseDown(p, pt)
    \/ \E p \in PageNumbers, pt \in Pts : handleMouseUp(p, pt)

\* C28: whenever edit mode is off no index is selected and
\* activeEditPageNumber is null; a pointer-down or pointer-up on any canvas
\* while edit mode is off changes neither the selection, the active page,
\* the drag state, the anchor nor the edit mode; and every step that turns
\* edit mode on or off leaves the selection empty and the active page null.
C28_OffMeansNoSelection ==
    /\ [](~isEditMode => (selectedIndices = <<>> /\ activeEditPageNumber = NoPage))
    /\ [][ /\ (~isEditMode /\ PointerDownOrUp) =>
                UNCHANGED <<selectedIndices, activeEditPageNumber, isEditMode,
                            dragStart, dragCurrent, pointAnchor>>
           /\ (isEditMode' # isEditMode) =>
                (selectedIndices' = <<>> /\ activeEditPageNumber' = NoPage)
         ]_vars

\* edit mode was on (a canvas holds the anchor of a first click) and a
\* button of the App has turned it off: nothing is selected
C28_Witness ==
    /\ ~isEditMode /\ last = AppObs
    /\ \E p \in PageNumbers : pointAnchor[p] # Null
    /\ selectedIndices = <<>> /\ activeEditPageNumber = NoPage

----------------------------------------------------------------------------
(* C29: one translation pass at a time *)

\* a translation pass is between its start and its finally block
PassInFlight == pass.pc # "idle"

\* C29: isProcessing is true exactly while a pass is in flight; a step that
\* leaves a pass in flight leaves it the same pass (same range, backend,
\* project and run) at the same or the next page, so no second pass starts
\* before the finally block of the first; isProcessing is set only by a
\* start from idle, at the first page of the range and, in AI mode, with a
\* stored key; and startTranslation in AI mode without a stored key opens
\* the key dialog and changes nothing else: no pass, no flag, no progress,
\* no message, nothing written in memory or in the store.
C29_OnePassAtATime ==
    /\ [](isProcessing <=> PassInFlight)
    /\ [][ /\ (PassInFlight /\ pass'.pc # "idle") =>
                /\ pass'.start = pass.start /\ pass'.end = pass.end
                /\ pass'.useAI = pass.useAI /\ pass'.projectId = pass.projectId
                /\ pass'.runs = pass.runs
                /\ pass'.n \in {pass.n, pass.n + 1}
           /\ (~isProcessing /\ isProcessing') =>
                /\ ~PassInFlight /\ pass'.pc = "page" /\ pass'.n = pass'.start
                /\ pass'.runs = pass.runs
                /\ pass'.useAI => hasStoredKey
           /\ (startTranslation /\ useAI /\ ~hasStoredKey) =>
                /\ showApiKeyModal' /\ ~isProcessing' /\ pass' = pass
                /\ progress' = progress /\ alertMsg' = alertMsg
                /\ store' = store /\ batches' = batches
         ]_vars

\* a start in AI mode has opened the key dialog, the dialog was answered with
\* a key, and the pass started after that is in flight at its second page
C29_Witness ==
    /\ isProcessing /\ pass.pc = "saving" /\ pass.useAI /\ hasStoredKey
    /\ pass.n = pass.start + 1 /\ ~showApiKeyModal

====
